---- MODULE Spec2Model ----
(***************************************************************************)
(* A model of the RAIS image server (Nerdmaster/rais-image-server):        *)
(*   - the JP2 decode pipeline and its stream registry                     *)
(*       (openjpeg: rawDecode, initializeStream, image_stream.go)          *)
(*   - the s3-images plugin's IDToPath and its per-asset lock              *)
(*   - the serving layer (cmd/rais-server/image_handler.go)                *)
(* Each subsystem has its own specification over its own variables; the    *)
(* variables of the other subsystems stay at their initial values.         *)
(***************************************************************************)
EXTENDS Integers, Sequences, FiniteSets, TLC

VARIABLES
    \* ---- openjpeg: stream registry and in-flight decodes ----
    nextStreamID,   \* image_stream.go:13
    imageStreams,   \* image_stream.go:14, id -> [id, stream]
    issued,         \* history: the ids newImageStream returned, in order
    jp2,            \* per decode: position in rawDecode and native handles
    readers,        \* per decode: its io.ReadSeeker and the id it is under
    callback,       \* the last stream callback the codec made, and its result
    \* ---- plugins/s3-images ----
    assets,         \* the plugin's map from IIIF id to asset
    assetObjs,      \* the asset objects ever made, each with its lock
    s3,             \* per IDToPath call: position, asset, time waited, result
    lookups,        \* history: the lookupAsset calls of the registry steps
                    \* and the removals of entries, in order
    expire,         \* the ExpireCachedImage call under way, if any
    \* ---- cmd/rais-server: identifier dispatch ----
    idToPathPlugins,\* the plugin list, fixed after startup: each plugin's result
    pathCall,       \* the last getIIIFPath call: its id and what it did
    \* ---- cmd/rais-server: the image handler ----
    ih,             \* the ImageHandler and the cache sizes it runs with
    overrideFile,   \* the {filePath}-info.json files on disk, per identifier
    infoCache,      \* LRU of identifier -> ImageInfo, most recent first
    tileCache,      \* LRU of path -> encoded bytes, most recent first
    resp,           \* the last request and what IIIFRoute did for it
    built,          \* the last ImageInfo given to buildInfo and its info
    \* ---- the decoder plugins ----
    dispatch,       \* a path and what each plugin's decode function said of it
    raster          \* an imagick-decoder Image: its settings and its decode

jp2Vars == <<nextStreamID, imageStreams, issued, jp2, readers, callback>>
s3Vars == <<assets, assetObjs, s3, lookups, expire>>
plugVars == <<idToPathPlugins, pathCall>>
httpVars == <<ih, overrideFile, infoCache, tileCache, resp, built>>

decVars == <<dispatch, raster>>

vars == <<jp2Vars, s3Vars, plugVars, httpVars, decVars>>

\* what each subsystem's steps leave alone
jp2Others == <<s3Vars, plugVars, httpVars, decVars, readers, callback>>
s3Others == <<jp2Vars, plugVars, httpVars, decVars, lookups, expire>>
plugOthers == <<jp2Vars, s3Vars, httpVars, decVars>>
httpOthers == <<jp2Vars, s3Vars, decVars, pathCall, built>>

(***************************************************************************)
(* Bounds                                                                  *)
(***************************************************************************)
\* number of concurrent rawDecode calls
NumDecodes == 2

Decodes == 1..NumDecodes

\* number of concurrent IDToPath calls
NumCallers == 2

Callers == 1..NumCallers

\* most stream ids handed out in a run of the stream callbacks
MaxStreamIDs == 2

\* most resolution levels of an image given to buildInfo
MaxLevels == 6

\* most lookupAsset calls in a run of the asset registry
MaxLookups == 4

\* longest list of idToPath plugins
MaxPlugins == 3

\* TileCacheLen and InfoCacheLen of the handlers that run with caches
TileCacheLen == 1
InfoCacheLen == 1

(***************************************************************************)
(* openjpeg/image_stream.go: the process-global stream registry            *)
(***************************************************************************)

\* newImageStream with the id taken from the registry's size (ids come back
\* after a freeStream) instead of from the counter
newImageStreamReuse(next, streams, reader) ==
    LET id == Cardinality(DOMAIN streams) + 1
        s  == [id |-> id, stream |-> reader]
    IN  [next    |-> next,
         s       |-> s,
         streams |-> [k \in (DOMAIN streams) \cup {id} |->
                         IF k = id THEN s ELSE streams[k]]]

\* newImageStream: under the mutex, nextStreamID++ and register the stream
\* under the new id.  Returns the new counter, the stream and the registry.
newImageStream(next, streams, reader) ==
    LET id == next + 1
        s  == [id |-> id, stream |-> reader]
    IN  [next    |-> id,
         s       |-> s,
         streams |-> [k \in (DOMAIN streams) \cup {id} |->
                         IF k = id THEN s ELSE streams[k]]]

\* lookupStream: (stream, ok)
lookupStream(streams, id) ==
    IF id \in DOMAIN streams
    THEN [ok |-> TRUE, s |-> streams[id]]
    ELSE [ok |-> FALSE, s |-> [id |-> 0, stream |-> 0]]

\* freeStream: delete(imageStreams, id)
freeStream(streams, id) ==
    [k \in (DOMAIN streams) \ {id} |-> streams[k]]

\* The native stream's user-data destructor: new_stream hands the stream id
\* to the codec's stream as its user data with freeStream as the function
\* that releases it, so destroying a native stream calls freeStream(id).
streamUserDataFree(streams, id) == freeStream(streams, id)

(***************************************************************************)
(* openjpeg/image_stream.go: the stream callbacks                          *)
(***************************************************************************)

\* len(asset.data) of the readers of the model
DataLen == 2

\* an OPJ_SIZE_T / OPJ_UINT64: n, or 2^64 - n for what wraps round
SizeT(n) == IF n >= 0 THEN [wrapped |-> FALSE, n |-> n]
            ELSE [wrapped |-> TRUE, n |-> 0 - n]

\* opjMinusOne64 and opjMinusOneSizeT: 0 - 1 in the unsigned type
opjMinusOne64 == SizeT(0 - 1)
opjMinusOneSizeT == SizeT(0 - 1)

NoReader == [sid |-> 0, pos |-> 0]

\* io.Reader.Read on a bytes.Reader, or on a reader that fails: io.EOF at
\* the end of the data, else up to numBytes bytes
Read(r, numBytes, fault) ==
    IF fault THEN [n |-> 0, err |-> "io error", r |-> r]
    ELSE IF r.pos >= DataLen THEN [n |-> 0, err |-> "EOF", r |-> r]
    ELSE LET n == IF numBytes < DataLen - r.pos THEN numBytes
                  ELSE DataLen - r.pos
         IN  [n |-> n, err |-> "none", r |-> [r EXCEPT !.pos = @ + n]]

\* io.Seeker.Seek: an error for a position before the start
Seek(r, offset, whence) ==
    LET abs == IF whence = "SeekStart" THEN offset ELSE r.pos + offset
    IN  IF abs < 0 THEN [err |-> "negative position", r |-> r]
        ELSE [err |-> "none", r |-> [r EXCEPT !.pos = abs]]

NoCallback == [fn |-> "none", id |-> 0, arg |-> 0, found |-> FALSE,
               reader |-> 0, err |-> "none", ret |-> SizeT(0), ok |-> FALSE]

\* opjStreamRead reading the first registered stream, whatever the id is
opjStreamReadAnyStream(streams, rs, numBytes, streamID, fault) ==
    IF DOMAIN streams = {}
    THEN [cb |-> [NoCallback EXCEPT !.fn = "read", !.id = streamID,
                                    !.arg = numBytes,
                                    !.ret = opjMinusOne64],
          readers |-> rs]
    ELSE LET k == CHOOSE i \in DOMAIN streams : \A j \in DOMAIN streams : i <= j
             p == streams[k].stream
             got == Read(rs[p], numBytes, fault)
         IN  [cb |-> [NoCallback EXCEPT
                        !.fn = "read", !.id = streamID, !.arg = numBytes,
                        !.found = TRUE, !.reader = p, !.err = got.err,
                        !.ret = IF got.err # "none" THEN opjMinusOne64
                                ELSE SizeT(got.n)],
              readers |-> [rs EXCEPT ![p] = got.r]]

\* opjStreamRead: the bytes read, or opjMinusOne64 for an unknown stream,
\* EOF or any other error
opjStreamRead(streams, rs, numBytes, streamID, fault) ==
    LET found == lookupStream(streams, streamID)
        p == found.s.stream
        got == Read(rs[p], numBytes, fault)
    IN  IF ~found.ok
        THEN [cb |-> [NoCallback EXCEPT !.fn = "read", !.id = streamID,
                                        !.arg = numBytes,
                                        !.ret = opjMinusOne64],
              readers |-> rs]
        ELSE [cb |-> [NoCallback EXCEPT
                        !.fn = "read", !.id = streamID, !.arg = numBytes,
                        !.found = TRUE, !.reader = p, !.err = got.err,
                        !.ret = IF got.err # "none" THEN opjMinusOne64
                                ELSE SizeT(got.n)],
              readers |-> [rs EXCEPT ![p] = got.r]]

\* opjStreamSkip returning the new position
opjStreamSkipReturnsPosition(streams, rs, numBytes, streamID) ==
    LET found == lookupStream(streams, streamID)
        p == found.s.stream
        got == Seek(rs[p], numBytes, "SeekCurrent")
    IN  IF ~found.ok
        THEN [cb |-> [NoCallback EXCEPT !.fn = "skip", !.id = streamID,
                                        !.arg = numBytes,
                                        !.ret = opjMinusOneSizeT],
              readers |-> rs]
        ELSE [cb |-> [NoCallback EXCEPT
                        !.fn = "skip", !.id = streamID, !.arg = numBytes,
                        !.found = TRUE, !.reader = p, !.err = got.err,
                        !.ret = IF got.err # "none" THEN opjMinusOneSizeT
                                ELSE SizeT(got.r.pos)],
              readers |-> [rs EXCEPT ![p] = got.r]]

\* opjStreamSkip: a seek relative to the current position; numBytes as an
\* OPJ_SIZE_T on success, opjMinusOneSizeT for an unknown stream or an error
opjStreamSkip(streams, rs, numBytes, streamID) ==
    LET found == lookupStream(streams, streamID)
        p == found.s.stream
        got == Seek(rs[p], numBytes, "SeekCurrent")
    IN  IF ~found.ok
        THEN [cb |-> [NoCallback EXCEPT !.fn = "skip", !.id = streamID,
                                        !.arg = numBytes,
                                        !.ret = opjMinusOneSizeT],
              readers |-> rs]
        ELSE [cb |-> [NoCallback EXCEPT
                        !.fn = "skip", !.id = streamID, !.arg = numBytes,
                        !.found = TRUE, !.reader = p, !.err = got.err,
                        !.ret = IF got.err # "none" THEN opjMinusOneSizeT
                                ELSE SizeT(numBytes)],
              readers |-> [rs EXCEPT ![p] = got.r]]

\* opjStreamSeek: a seek from the start; OPJ_TRUE on success, OPJ_FALSE for
\* an unknown stream or an error
opjStreamSeek(streams, rs, offset, streamID) ==
    LET found == lookupStream(streams, streamID)
        p == found.s.stream
        got == Seek(rs[p], offset, "SeekStart")
    IN  IF ~found.ok
        THEN [cb |-> [NoCallback EXCEPT !.fn = "seek", !.id = streamID,
                                        !.arg = offset],
              readers |-> rs]
        ELSE [cb |-> [NoCallback EXCEPT
                        !.fn = "seek", !.id = streamID, !.arg = offset,
                        !.found = TRUE, !.reader = p, !.err = got.err,
                        !.ok = (got.err = "none")],
              readers |-> [rs EXCEPT ![p] = got.r]]

\* the stream ids the codec may call back with: those handed out so far,
\* freed or not, and 0, which never is
CallbackIDs == 0..nextStreamID

\* initializeStream for a request: newImageStream(bytes.NewReader(data))
RegisterStream(p) ==
    /\ readers[p].sid = 0
    /\ nextStreamID < MaxStreamIDs
    /\ LET r == newImageStream(nextStreamID, imageStreams, p)
       IN  /\ nextStreamID' = r.next
           /\ imageStreams' = r.streams
           /\ readers' = [readers EXCEPT ![p] = [sid |-> r.s.id, pos |-> 0]]
    /\ UNCHANGED <<issued, jp2, callback, s3Vars, plugVars, decVars, httpVars>>

\* the request's native stream destroyed: freeStream(id)
ReleaseStream(p) ==
    /\ readers[p].sid # 0
    /\ imageStreams' = freeStream(imageStreams, readers[p].sid)
    /\ readers' = [readers EXCEPT ![p] = NoReader]
    /\ UNCHANGED <<nextStreamID, issued, jp2, callback,
                   s3Vars, plugVars, decVars, httpVars>>

\* the codec calls opjStreamRead
OpjStreamRead ==
    /\ \E k \in CallbackIDs, numBytes \in 1..DataLen, fault \in BOOLEAN :
         LET r == opjStreamRead(imageStreams, readers, numBytes, k, fault)
         IN  callback' = r.cb /\ readers' = r.readers
    /\ UNCHANGED <<nextStreamID, imageStreams, issued, jp2,
                   s3Vars, plugVars, decVars, httpVars>>

\* the codec calls opjStreamSkip
OpjStreamSkip ==
    /\ \E k \in CallbackIDs, numBytes \in {0 - 1, 1} :
         LET r == opjStreamSkip(imageStreams, readers, numBytes, k)
         IN  /\ \A p \in Decodes : r.readers[p].pos <= DataLen
             /\ callback' = r.cb /\ readers' = r.readers
    /\ UNCHANGED <<nextStreamID, imageStreams, issued, jp2,
                   s3Vars, plugVars, decVars, httpVars>>

\* the codec calls opjStreamSeek
OpjStreamSeek ==
    /\ \E k \in CallbackIDs, offset \in {0 - 1, 0, DataLen} :
         LET r == opjStreamSeek(imageStreams, readers, offset, k)
         IN  callback' = r.cb /\ readers' = r.readers
    /\ UNCHANGED <<nextStreamID, imageStreams, issued, jp2,
                   s3Vars, plugVars, decVars, httpVars>>

(***************************************************************************)
(* openjpeg: rawDecode and initializeStream, one step per native call      *)
(***************************************************************************)

NoDecode == [pc |-> "lookupAsset", sid |-> 0, fullArea |-> TRUE,
             stream |-> "none", codec |-> "none",
             streamDestroys |-> 0, codecDestroys |-> 0,
             steps |-> <<>>, err |-> "none"]

Jp2Set(p, r) == jp2' = [jp2 EXCEPT ![p] = r]

\* One codec call of rawDecode: appended to the decode's step log; on
\* failure rawDecode returns, which runs the deferred destroys.
CodecStep(p, name, ok, next) ==
    Jp2Set(p, [jp2[p] EXCEPT !.steps = Append(@, name),
                              !.err   = IF ok THEN "none" ELSE name,
                              !.pc    = IF ok THEN next ELSE "destroyCodec"])

\* initializeStream: lookupAsset(id); an error returns before any stream is
\* registered (rawDecode then returns at once: nothing is deferred yet)
LookupAsset(p) ==
    /\ jp2[p].pc = "lookupAsset"
    /\ \E ok \in BOOLEAN :
         Jp2Set(p, [jp2[p] EXCEPT !.pc  = IF ok THEN "newImageStream" ELSE "done",
                                   !.err = IF ok THEN "none" ELSE "lookupAsset"])
    /\ UNCHANGED <<nextStreamID, imageStreams, issued, jp2Others>>

\* initializeStream: var s = newImageStream(bytes.NewReader(asset.data))
NewImageStream(p) ==
    /\ jp2[p].pc = "newImageStream"
    /\ LET r == newImageStream(nextStreamID, imageStreams, p)
       IN  /\ nextStreamID' = r.next
           /\ imageStreams' = r.streams
           /\ issued' = Append(issued, r.s.id)
           /\ Jp2Set(p, [jp2[p] EXCEPT !.sid = r.s.id, !.pc = "new_stream"])
    /\ UNCHANGED jp2Others

\* initializeStream: stream := C.new_stream(...); a nil stream returns an
\* error, and rawDecode returns it before deferring anything
NewStream(p) ==
    /\ jp2[p].pc = "new_stream"
    /\ \E ok \in BOOLEAN :
         Jp2Set(p, [jp2[p] EXCEPT !.stream = IF ok THEN "open" ELSE "none",
                                   !.pc     = IF ok THEN "create" ELSE "done",
                                   !.err    = IF ok THEN "none" ELSE "new_stream"])
    /\ UNCHANGED <<nextStreamID, imageStreams, issued, jp2Others>>

\* rawDecode: defer opj_stream_destroy(stream); codec := opj_create_decompress;
\* defer opj_destroy_codec(codec); set_handlers(codec)
CreateCodec(p) ==
    /\ jp2[p].pc = "create"
    /\ Jp2Set(p, [jp2[p] EXCEPT !.codec = "open", !.pc = "setup_decoder"])
    /\ UNCHANGED <<nextStreamID, imageStreams, issued, jp2Others>>

\* rawDecode: opj_setup_decoder
SetupDecoder(p) ==
    /\ jp2[p].pc = "setup_decoder"
    /\ \E ok \in BOOLEAN : CodecStep(p, "setup_decoder", ok, "read_header")
    /\ UNCHANGED <<nextStreamID, imageStreams, issued, jp2Others>>

\* the decode area set whatever it is
ReadHeaderAlwaysSetsArea(p) ==
    /\ jp2[p].pc = "read_header"
    /\ \E ok \in BOOLEAN :
         CodecStep(p, "read_header", ok, "set_decode_area")
    /\ UNCHANGED <<nextStreamID, imageStreams, issued, jp2Others>>

\* rawDecode: opj_read_header; then the decode area is set only if it is
\* not the full image
ReadHeader(p) ==
    /\ jp2[p].pc = "read_header"
    /\ \E ok \in BOOLEAN :
         CodecStep(p, "read_header", ok,
                   IF jp2[p].fullArea THEN "decode" ELSE "set_decode_area")
    /\ UNCHANGED <<nextStreamID, imageStreams, issued, jp2Others>>

\* rawDecode: opj_set_decode_area (i.decodeArea != i.srcRect)
SetDecodeArea(p) ==
    /\ jp2[p].pc = "set_decode_area"
    /\ \E ok \in BOOLEAN : CodecStep(p, "set_decode_area", ok, "decode")
    /\ UNCHANGED <<nextStreamID, imageStreams, issued, jp2Others>>

\* rawDecode: opj_decode; || short-circuits, so a failed decode is not
\* followed by opj_end_decompress
Decode(p) ==
    /\ jp2[p].pc = "decode"
    /\ \E ok \in BOOLEAN : CodecStep(p, "decode", ok, "end_decompress")
    /\ UNCHANGED <<nextStreamID, imageStreams, issued, jp2Others>>

\* rawDecode: opj_end_decompress; success returns (jp2, nil)
EndDecompress(p) ==
    /\ jp2[p].pc = "end_decompress"
    /\ \E ok \in BOOLEAN : CodecStep(p, "end_decompress", ok, "destroyCodec")
    /\ UNCHANGED <<nextStreamID, imageStreams, issued, jp2Others>>

\* the codec destroyed on the success path only (no defer)
DestroyCodecOnSuccessOnly(p) ==
    /\ jp2[p].pc = "destroyCodec"
    /\ Jp2Set(p, [jp2[p] EXCEPT
                    !.codec = IF jp2[p].err = "none" THEN "destroyed" ELSE @,
                    !.codecDestroys = IF jp2[p].err = "none" THEN @ + 1 ELSE @,
                    !.pc = "destroyStream"])
    /\ UNCHANGED <<nextStreamID, imageStreams, issued, jp2Others>>

\* rawDecode's return: the deferred opj_destroy_codec runs first (LIFO)
DestroyCodec(p) ==
    /\ jp2[p].pc = "destroyCodec"
    /\ Jp2Set(p, [jp2[p] EXCEPT !.codec = "destroyed",
                                 !.codecDestroys = @ + 1,
                                 !.pc = "destroyStream"])
    /\ UNCHANGED <<nextStreamID, imageStreams, issued, jp2Others>>

\* rawDecode's return: the deferred opj_stream_destroy runs last; the
\* native stream releases its user data, the stream id
DestroyStream(p) ==
    /\ jp2[p].pc = "destroyStream"
    /\ imageStreams' = streamUserDataFree(imageStreams, jp2[p].sid)
    /\ Jp2Set(p, [jp2[p] EXCEPT !.stream = "destroyed",
                                 !.streamDestroys = @ + 1,
                                 !.pc = "done"])
    /\ UNCHANGED <<nextStreamID, issued, jp2Others>>

(***************************************************************************)
(* plugins/s3-images: assets, the per-asset lock, IDToPath                 *)
(***************************************************************************)

\* time.Second * 10, in ms
TimeoutMs == 10000
\* time.Millisecond * 250, in ms
SleepMs == 250

\* an s3:// id and an id of another scheme
S3Ids == {"s3://bucket/key", "foo"}

\* the ids looked up in the asset registry
AssetIds == S3Ids \cup {"s3://bucket/other"}

\* the key parsed out of an id: empty unless the id is an s3:// URL
AssetKey(id) == IF id = "s3://bucket/key" THEN "key"
                ELSE IF id = "s3://bucket/other" THEN "other"
                ELSE ""

\* asset.valid: the id gave a key
valid(asset) == asset.key # ""

\* lookupAsset making and registering a new asset whatever the map holds
lookupAssetAlwaysNew(map, objs, id) ==
    LET a == Len(objs) + 1
    IN  [a |-> a, ok |-> FALSE,
         assets |-> [k \in (DOMAIN map) \cup {id} |->
                        IF k = id THEN a ELSE map[k]],
         objs |-> Append(objs, [id |-> id, key |-> AssetKey(id),
                                path |-> <<"s3cache", id>>, fs |-> 0])]

\* lookupAsset: under assetMutex, the asset registered for the id, or a new
\* one made from the id and registered; ok tells whether it was there
lookupAsset(map, objs, id) ==
    IF id \in DOMAIN map
    THEN [a |-> map[id], ok |-> TRUE, assets |-> map, objs |-> objs]
    ELSE LET a == Len(objs) + 1
         IN  [a |-> a, ok |-> FALSE,
              assets |-> [k \in (DOMAIN map) \cup {id} |->
                             IF k = id THEN a ELSE map[k]],
              objs |-> Append(objs, [id |-> id, key |-> AssetKey(id),
                                     path |-> <<"s3cache", id>>, fs |-> 0])]

\* asset.tryFLock: take the asset's lock if it is free, without blocking
tryFLock(objs, a) ==
    IF objs[a].fs = 0
    THEN [ok |-> TRUE, objs |-> [objs EXCEPT ![a].fs = 1]]
    ELSE [ok |-> FALSE, objs |-> objs]

\* asset.fUnlock: release the asset's lock
fUnlock(objs, a) == [objs EXCEPT ![a].fs = 0]

NoCall == [pc |-> "idle", id |-> "", a |-> 0, waited |-> 0, retried |-> FALSE,
           reads |-> 0, downloads |-> 0, unlocks |-> 0,
           path |-> <<>>, err |-> "none"]

S3Set(p, r) == s3' = [s3 EXCEPT ![p] = r]

\* IDToPath without the test of the key
IDToPathLookupNoKeyTest(p) ==
    /\ s3[p].pc = "idle"
    /\ \E id \in S3Ids :
         LET r == lookupAsset(assets, assetObjs, id)
         IN  /\ assets' = r.assets
             /\ assetObjs' = r.objs
             /\ S3Set(p, [s3[p] EXCEPT !.id = id, !.a = r.a,
                                       !.pc = "tryFLock"])
    /\ UNCHANGED s3Others

\* IDToPath: a, _ = lookupAsset(id); an asset without a key is not ours:
\* return ("", ErrSkipped).  Otherwise timeout = now + 10 s.
IDToPathLookup(p) ==
    /\ s3[p].pc = "idle"
    /\ \E id \in S3Ids :
         LET r == lookupAsset(assets, assetObjs, id)
         IN  /\ assets' = r.assets
             /\ assetObjs' = r.objs
             /\ S3Set(p, IF r.objs[r.a].key = ""
                         THEN [s3[p] EXCEPT !.id = id, !.a = r.a, !.pc = "done",
                                            !.path = <<>>, !.err = "ErrSkipped"]
                         ELSE [s3[p] EXCEPT !.id = id, !.a = r.a,
                                            !.pc = "tryFLock"])
    /\ UNCHANGED s3Others

\* the loop entered whether or not the lock was taken
IDToPathTryFLockIgnored(p) ==
    /\ s3[p].pc = "tryFLock"
    /\ LET r == tryFLock(assetObjs, s3[p].a)
       IN  /\ assetObjs' = r.objs
           /\ S3Set(p, [s3[p] EXCEPT !.pc = "read"])
    /\ UNCHANGED <<assets, s3Others>>

\* IDToPath: for a.tryFLock() == false { ... }; the deadline is not looked
\* at again once the lock is taken
IDToPathTryFLock(p) ==
    /\ s3[p].pc = "tryFLock"
    /\ LET r == tryFLock(assetObjs, s3[p].a)
       IN  /\ assetObjs' = r.objs
           /\ S3Set(p, IF r.ok
                       THEN [s3[p] EXCEPT !.pc = "read", !.waited = 0,
                                          !.retried = (s3[p].waited > 0)]
                       ELSE [s3[p] EXCEPT !.pc = "sleep"])
    /\ UNCHANGED <<assets, s3Others>>

\* the deadline test the wrong way round: Before(timeout)
IDToPathSleepBefore(p) ==
    /\ s3[p].pc = "sleep"
    /\ \E extra \in {0, SleepMs} :
         LET w == s3[p].waited + SleepMs + extra
         IN  S3Set(p, IF w < TimeoutMs
                      THEN [s3[p] EXCEPT !.waited = w, !.pc = "done",
                                         !.path = <<>>, !.err = "timeout"]
                      ELSE [s3[p] EXCEPT !.waited = w, !.pc = "tryFLock"])
    /\ UNCHANGED <<assets, assetObjs, s3Others>>

\* IDToPath: time.Sleep(250 ms), which lasts at least that long; then
\* if time.Now().After(timeout) return ("", timed out)
IDToPathSleep(p) ==
    /\ s3[p].pc = "sleep"
    /\ \E extra \in {0, SleepMs} :
         LET w == s3[p].waited + SleepMs + extra
         IN  S3Set(p, IF w > TimeoutMs
                      THEN [s3[p] EXCEPT !.waited = w, !.pc = "done",
                                         !.path = <<>>, !.err = "timeout"]
                      ELSE [s3[p] EXCEPT !.waited = w, !.pc = "tryFLock"])
    /\ UNCHANGED <<assets, assetObjs, s3Others>>

\* IDToPath: a.read()
IDToPathRead(p) ==
    /\ s3[p].pc = "read"
    /\ S3Set(p, [s3[p] EXCEPT !.reads = @ + 1, !.pc = "download"])
    /\ UNCHANGED <<assets, assetObjs, s3Others>>

\* IDToPath: err = a.download(), which may fail
IDToPathDownload(p) ==
    /\ s3[p].pc = "download"
    /\ \E e \in {"none", "download failed"} :
         S3Set(p, [s3[p] EXCEPT !.downloads = @ + 1, !.err = e,
                                 !.pc = "fUnlock"])
    /\ UNCHANGED <<assets, assetObjs, s3Others>>

\* the lock released only after a download that succeeded
IDToPathFUnlockOnSuccess(p) ==
    /\ s3[p].pc = "fUnlock"
    /\ assetObjs' = IF s3[p].err = "none" THEN fUnlock(assetObjs, s3[p].a)
                    ELSE assetObjs
    /\ S3Set(p, [s3[p] EXCEPT !.unlocks = IF s3[p].err = "none" THEN @ + 1
                                          ELSE @,
                               !.pc = "done",
                               !.path = assetObjs[s3[p].a].path])
    /\ UNCHANGED <<assets, s3Others>>

\* IDToPath: a.fUnlock(); return a.path, err
IDToPathFUnlock(p) ==
    /\ s3[p].pc = "fUnlock"
    /\ assetObjs' = fUnlock(assetObjs, s3[p].a)
    /\ S3Set(p, [s3[p] EXCEPT !.unlocks = @ + 1, !.pc = "done",
                               !.path = assetObjs[s3[p].a].path])
    /\ UNCHANGED <<assets, s3Others>>

\* ---- the asset registry: lookupAsset and ExpireCachedImage ----

LookupEntry(id, a, ok) == [op |-> "lookup", id |-> id, a |-> a, ok |-> ok]
RemovedEntry(id, a) == [op |-> "removed", id |-> id, a |-> a, ok |-> FALSE]

NoExpire == [pc |-> "idle", id |-> "", a |-> 0, ok |-> FALSE]

LookupCount == Cardinality({i \in 1..Len(lookups) : lookups[i].op = "lookup"})

\* delete(assets, id)
MapWithout(map, id) == [k \in (DOMAIN map) \ {id} |-> map[k]]

\* doPurge: removes the asset's cached file; its entry in assets is dropped
\* or kept
doPurge(map, asset, drops) == IF drops THEN MapWithout(map, asset.id) ELSE map

\* a lookupAsset call by a request for an id
LookupAssetCall ==
    /\ LookupCount < MaxLookups
    /\ \E id \in AssetIds :
         LET r == lookupAsset(assets, assetObjs, id)
         IN  /\ assets' = r.assets
             /\ assetObjs' = r.objs
             /\ lookups' = Append(lookups, LookupEntry(id, r.a, r.ok))
    /\ UNCHANGED <<s3, expire, jp2Vars, plugVars, decVars, httpVars>>

\* ExpireCachedImage: a, ok = lookupAsset(id)
ExpireCachedImageLookup ==
    /\ expire.pc = "idle"
    /\ LookupCount < MaxLookups
    /\ \E id \in AssetIds :
         LET r == lookupAsset(assets, assetObjs, id)
         IN  /\ assets' = r.assets
             /\ assetObjs' = r.objs
             /\ lookups' = Append(lookups, LookupEntry(id, r.a, r.ok))
             /\ expire' = [pc |-> "purge", id |-> id, a |-> r.a, ok |-> r.ok]
    /\ UNCHANGED <<s3, jp2Vars, plugVars, decVars, httpVars>>

\* ExpireCachedImage: if ok { doPurge(a) } else { delete(assets, a.id) }
ExpireCachedImagePurge ==
    /\ expire.pc = "purge"
    /\ \E drops \in BOOLEAN :
         LET after == IF expire.ok
                      THEN doPurge(assets, assetObjs[expire.a], drops)
                      ELSE MapWithout(assets, assetObjs[expire.a].id)
         IN  /\ assets' = after
             /\ lookups' = IF expire.id \in DOMAIN assets
                               /\ expire.id \notin DOMAIN after
                            THEN Append(lookups,
                                        RemovedEntry(expire.id,
                                                     assets[expire.id]))
                            ELSE lookups
    /\ expire' = NoExpire
    /\ UNCHANGED <<assetObjs, s3, jp2Vars, plugVars, decVars, httpVars>>

(***************************************************************************)
(* cmd/rais-server/image_handler.go: identifier dispatch                   *)
(***************************************************************************)

\* what a plugin's idtopath(id) can come back with: a nil error,
\* plugins.ErrSkipped, or another error
PluginResults == {"Ok", "Skipped", "Error"}

\* ih.TilePath
TilePath == "tiles"

IIIFIds == {"img1", "missing"}

\* the path a plugin answers for an id
PluginPath(i, id) == <<"plugin", i, id>>

\* ih.TilePath + "/" + string(id)
DefaultPath(id) == <<TilePath, id>>

\* the walk given up at the first plugin error
RECURSIVE walkPluginsStopOnError(_, _, _, _)
walkPluginsStopOnError(ps, id, i, acc) ==
    IF i > Len(ps)
    THEN [acc EXCEPT !.path = DefaultPath(id)]
    ELSE LET called == [acc EXCEPT !.called = Append(@, i)]
         IN  IF ps[i] = "Ok"
             THEN [called EXCEPT !.path = PluginPath(i, id)]
             ELSE IF ps[i] = "Skipped"
             THEN walkPluginsStopOnError(ps, id, i + 1, called)
             ELSE [called EXCEPT !.warned = Append(@, i),
                                 !.path = DefaultPath(id)]

getIIIFPathStopOnError(ps, id) ==
    walkPluginsStopOnError(ps, id, 1,
                           [path |-> <<>>, called |-> <<>>, warned |-> <<>>])

\* the loop of getIIIFPath from plugin i on: call the plugin; a nil error
\* returns its path, ErrSkipped continues, any other error is logged as a
\* warning and the loop continues; after the loop the default path
RECURSIVE walkPlugins(_, _, _, _)
walkPlugins(ps, id, i, acc) ==
    IF i > Len(ps)
    THEN [acc EXCEPT !.path = DefaultPath(id)]
    ELSE LET called == [acc EXCEPT !.called = Append(@, i)]
         IN  IF ps[i] = "Ok"
             THEN [called EXCEPT !.path = PluginPath(i, id)]
             ELSE IF ps[i] = "Skipped"
             THEN walkPlugins(ps, id, i + 1, called)
             ELSE walkPlugins(ps, id, i + 1,
                              [called EXCEPT !.warned = Append(@, i)])

\* getIIIFPath: the path, the plugins called and the warnings logged
getIIIFPath(ps, id) ==
    walkPlugins(ps, id, 1, [path |-> <<>>, called |-> <<>>, warned |-> <<>>])

NoPathCall == [id |-> "", path |-> <<>>, called |-> <<>>, warned |-> <<>>]

\* one call of ih.getIIIFPath(id)
GetIIIFPath ==
    /\ \E id \in IIIFIds :
         LET r == getIIIFPath(idToPathPlugins, id)
         IN  pathCall' = [id |-> id, path |-> r.path, called |-> r.called,
                          warned |-> r.warned]
    /\ UNCHANGED <<idToPathPlugins, plugOthers>>

(***************************************************************************)
(* cmd/rais-server/image_handler.go: requests, sources, caches             *)
(***************************************************************************)

\* math.MaxInt32
MaxInt32 == 2147483647

\* An int64 (Constraint.Area, Profile.MaxArea).  math.MaxInt64 is beyond the
\* integers TLC computes with, so an int64 is either a number the model can
\* form or the top value; no area of two int dimensions exceeds the top.
Int64(n) == [top |-> FALSE, n |-> n]
MaxInt64 == [top |-> TRUE, n |-> 0]
Int64Gt(n, a) == ~a.top /\ n > a.n

\* ---- path segments and the paths requested ----

Lit(str) == [t |-> "lit", s |-> str, w |-> 0, h |-> 0]
\* the size segments "full", "w,", ",h", "w,h" and one that is no size at all
SizeFull == [t |-> "size", s |-> "full", w |-> 0, h |-> 0]
SizeW(w) == [t |-> "size", s |-> "w,", w |-> w, h |-> 0]
SizeWH(w, h) == [t |-> "size", s |-> "w,h", w |-> w, h |-> h]
SizeH(h) == [t |-> "size", s |-> ",h", w |-> 0, h |-> h]
SizeBogus == [t |-> "size", s |-> "bogus", w |-> 0, h |-> 0]

CommandPath(id, size, qf) == <<Lit(id), Lit("full"), size, Lit("0"), Lit(qf)>>

ExistingIds == {"img1", "tall"}

\* files that are there but that no decoder takes
UnknownTypeIds == {"notes.txt"}

RequestPaths ==
    {<<Lit(id)>> : id \in ExistingIds \cup {"missing"}}
    \cup {<<Lit(id), Lit("info.json")>> : id \in ExistingIds \cup {"missing"}}
    \cup {<<Lit("img1"), Lit("full"), Lit("max")>>}
    \cup {CommandPath(id, size, "default.jpg") :
            id \in ExistingIds,
            size \in {SizeFull, SizeW(500), SizeH(300), SizeW(8000), SizeBogus}}
    \cup {CommandPath(id, SizeW(500), "default.png") : id \in ExistingIds}
    \cup {CommandPath("missing", SizeW(500), "default.jpg"),
          CommandPath("img1", SizeWH(500, 2000), "default.jpg")}
    \cup {<<Lit(id), Lit("info.json")>> : id \in UnknownTypeIds}

\* ---- iiif.NewURL and iiif.URL ----

IdOf(segs) == [i \in 1..Len(segs) |-> segs[i].s]

FormatOf(seg) == IF seg.s = "default.jpg" THEN "jpg"
                 ELSE IF seg.s = "default.png" THEN "png" ELSE ""

NoURL == [ok |-> FALSE, Path |-> <<>>, ID |-> <<>>, Info |-> FALSE,
          Size |-> SizeFull, Format |-> ""]

\* iiif.NewURL: {id}/info.json is an info request, a path with the four
\* command segments after the id is a command, anything else is an error
NewURL(path) ==
    LET n == Len(path)
    IN  IF n >= 2 /\ path[n] = Lit("info.json")
        THEN [NoURL EXCEPT !.ok = TRUE, !.Path = path,
                           !.ID = IdOf(SubSeq(path, 1, n - 1)), !.Info = TRUE]
        ELSE IF n >= 5 /\ path[n - 2].t = "size"
        THEN [NoURL EXCEPT !.ok = TRUE, !.Path = path,
                           !.ID = IdOf(SubSeq(path, 1, n - 4)),
                           !.Size = path[n - 2],
                           !.Format = FormatOf(path[n])]
        ELSE [NoURL EXCEPT !.Path = path]

\* iiif.URL.Valid: every segment of a command is well-formed
URLValid(u) == u.Size.s # "bogus" /\ u.Format # ""

\* iiif.FeatureSet.Supported
Supported(features, u) ==
    /\ (u.Size.s = "w," => "sizeByW" \in features)
    /\ (u.Size.s = ",h" => "sizeByH" \in features)
    /\ (u.Size.s = "w,h" => "sizeByWh" \in features)
    /\ (u.Format = "png" => "png" \in features)

AllFeatures == {"sizeByW", "sizeByH", "sizeByWh", "png"}

\* ---- source images (img.NewResource, img.Decoder) ----

NoFile == [exists |-> FALSE, Width |-> 0, Height |-> 0, TileWidth |-> 0,
           TileHeight |-> 0, Levels |-> 0]

ImageFile(fp) ==
    IF fp = DefaultPath(<<"img1">>)
    THEN [exists |-> TRUE, Width |-> 6000, Height |-> 4000,
          TileWidth |-> 1024, TileHeight |-> 1024, Levels |-> 5]
    ELSE IF fp = DefaultPath(<<"tall">>)
    THEN [exists |-> TRUE, Width |-> 600, Height |-> 2400,
          TileWidth |-> 0, TileHeight |-> 0, Levels |-> 1]
    ELSE NoFile

\* img.NewResource: ErrDoesNotExist for a path that is not there,
\* ErrInvalidFiletype for a file no decoder takes
NewResource(id, fp) ==
    IF ImageFile(fp).exists
    THEN [err |-> "none", FilePath |-> fp, Decoder |-> ImageFile(fp)]
    ELSE IF \E n \in UnknownTypeIds : fp = DefaultPath(<<n>>)
    THEN [err |-> "ErrInvalidFiletype", FilePath |-> fp, Decoder |-> NoFile]
    ELSE [err |-> "ErrDoesNotExist", FilePath |-> fp, Decoder |-> NoFile]

\* img.Constraint.SmallerThanAny: the constraint is exceeded by w x h
SmallerThanAny(c, w, h) ==
    w > c.Width \/ h > c.Height \/ Int64Gt(w * h, c.Area)

\* ---- the LRU caches (Get moves to the front, Add evicts the oldest) ----

CacheHas(c, k) == \E i \in 1..Len(c) : c[i].k = k

CacheValue(c, k) == c[CHOOSE i \in 1..Len(c) : c[i].k = k].v

CacheWithout(c, k) == SelectSeq(c, LAMBDA e : e.k # k)

CacheGet(c, k) ==
    IF CacheHas(c, k)
    THEN <<[k |-> k, v |-> CacheValue(c, k)]>> \o CacheWithout(c, k)
    ELSE c

CacheAdd(c, cap, k, v) ==
    LET all == <<[k |-> k, v |-> v]>> \o CacheWithout(c, k)
    IN  IF Len(all) > cap THEN SubSeq(all, 1, cap) ELSE all

(***************************************************************************)
(* image_handler.go: info documents                                        *)
(***************************************************************************)

Unbounded == [Width |-> MaxInt32, Height |-> MaxInt32, Area |-> MaxInt64]

\* NewImageHandler plus the settings main applies to it: the handlers the
\* model runs
\* ih.BaseURL: nil, or the configured URL
NoBaseURL == [set |-> FALSE, Host |-> "", Scheme |-> ""]
ConfiguredBaseURL == [set |-> TRUE, Host |-> "images.example.org",
                      Scheme |-> "https"]

Handlers ==
    {[BaseURL |-> NoBaseURL,
      Maximums |-> Unbounded, FeatureSet |-> AllFeatures,
      tileCacheLen |-> TileCacheLen, infoCacheLen |-> InfoCacheLen],
     [BaseURL |-> ConfiguredBaseURL,
      Maximums |-> [Unbounded EXCEPT !.Width = 6000],
      FeatureSet |-> AllFeatures,
      tileCacheLen |-> TileCacheLen, infoCacheLen |-> InfoCacheLen],
     [BaseURL |-> NoBaseURL,
      Maximums |-> [Width |-> 1000, Height |-> 1000, Area |-> Int64(1000000)],
      FeatureSet |-> AllFeatures \ {"sizeByH"},
      tileCacheLen |-> TileCacheLen, infoCacheLen |-> InfoCacheLen],
     [BaseURL |-> NoBaseURL,
      Maximums |-> Unbounded, FeatureSet |-> AllFeatures,
      tileCacheLen |-> 0, infoCacheLen |-> 0]}

NoInfo == [ID |-> <<>>, Width |-> 0, Height |-> 0,
           MaxWidth |-> 0, MaxHeight |-> 0, MaxArea |-> Int64(0),
           TileWidth |-> 0, TileHeight |-> 0, ScaleFactors |-> <<>>]

\* the loop with the height left out of the test
RECURSIVE scaleFactorsFromWidthOnly(_, _, _, _, _, _)
scaleFactorsFromWidthOnly(x, scale, sf, width, height, levels) ==
    IF x >= levels THEN sf
    ELSE IF width \div scale < 16 THEN sf
    ELSE scaleFactorsFromWidthOnly(x + 1, scale * 2, Append(sf, scale),
                                   width, height, levels)

\* buildInfo's loop over the levels
RECURSIVE scaleFactorsFrom(_, _, _, _, _, _)
scaleFactorsFrom(x, scale, sf, width, height, levels) ==
    IF x >= levels THEN sf
    ELSE IF width \div scale < 16 THEN sf
    ELSE IF height \div scale < 16 THEN sf
    ELSE scaleFactorsFrom(x + 1, scale * 2, Append(sf, scale),
                          width, height, levels)

\* buildInfo: the feature set's info with the image's size, the handler's
\* maximums if the image exceeds any of them, and the tile sizes
buildInfo(h, id, i) ==
    LET limited == SmallerThanAny(h.Maximums, i.Width, i.Height)
    IN  [NoInfo EXCEPT
           !.Width = i.Width,
           !.Height = i.Height,
           !.MaxArea = IF limited THEN h.Maximums.Area ELSE @,
           !.MaxWidth = IF limited THEN h.Maximums.Width ELSE @,
           !.MaxHeight = IF limited THEN h.Maximums.Height ELSE @,
           !.TileWidth = IF i.TileWidth > 0 THEN i.TileWidth ELSE @,
           !.TileHeight = IF i.TileWidth > 0 /\ i.TileHeight > 0
                          THEN i.TileHeight ELSE @,
           !.ScaleFactors = IF i.TileWidth > 0
                            THEN scaleFactorsFrom(0, 1, <<>>, i.Width,
                                                  i.Height, i.Levels)
                            ELSE @]

\* the widths and heights of the images given to buildInfo
Dims == {1, 15, 16, 17, 31, 32, 63, 64, 100, 255, 256, 4000, 6000}

\* the ImageInfo values given to buildInfo: untiled, tiled with a width
\* only, tiled with both
ImageInfos ==
    {[Width |-> w, Height |-> h, TileWidth |-> t[1], TileHeight |-> t[2],
      Levels |-> l] :
        w \in Dims, h \in Dims, t \in {<<0, 0>>, <<256, 0>>, <<256, 256>>},
        l \in 0..MaxLevels}

NoBuilt == [i |-> [Width |-> 0, Height |-> 0, TileWidth |-> 0,
                   TileHeight |-> 0, Levels |-> 0],
            info |-> NoInfo, done |-> TRUE]

\* buildInfo called for the ImageInfo at hand
BuildInfo ==
    /\ ~built.done
    /\ built' = [built EXCEPT !.info = buildInfo(ih, <<"img">>, built.i),
                              !.done = TRUE]
    /\ UNCHANGED <<ih, overrideFile, infoCache, tileCache, resp,
                   jp2Vars, s3Vars, plugVars, decVars>>

\* what a parseable {filePath}-info.json of the model holds: the image's
\* size and a profile of its own
OverrideDoc(fp) ==
    [NoInfo EXCEPT !.Width = ImageFile(fp).Width,
                   !.Height = ImageFile(fp).Height,
                   !.MaxWidth = 400]

OverrideStates == {"absent", "unparseable", "ok"}

\* the identifiers an override file may be written for: an image that is
\* there and one that is not
OverrideIds == {<<"img1">>, <<"missing">>}

\* the override files on disk: the model keeps at most one at a time
OverrideConfigs ==
    {f \in [OverrideIds -> OverrideStates] :
        \A a, b \in OverrideIds :
            (f[a] # "absent" /\ f[b] # "absent") => a = b}

\* the state of the override file read for an id
OverrideAt(files, id) == IF id \in DOMAIN files THEN files[id] ELSE "absent"

NoInfoResult == [found |-> FALSE, info |-> NoInfo, code |-> 0, err |-> "none",
                 infoCache |-> <<>>, from |-> "none", opened |-> FALSE,
                 readOverride |-> FALSE]

\* newImageResError: the status for an img error
newImageResError(err) ==
    IF err = "ErrDimensionsExceedLimits" THEN 501
    ELSE IF err = "ErrDoesNotExist" THEN 404
    ELSE 500

\* loadInfoFromCache
loadInfoFromCache(h, cache, id) ==
    IF h.infoCacheLen = 0 \/ ~CacheHas(cache, id)
    THEN [NoInfoResult EXCEPT !.infoCache = cache]
    ELSE [NoInfoResult EXCEPT !.found = TRUE,
                              !.info = buildInfo(h, id, CacheValue(cache, id)),
                              !.infoCache = CacheGet(cache, id),
                              !.from = "cache"]

\* loadInfoOverride: the file fp + "-info.json", if it is there and parses
loadInfoOverride(files, cache, id, fp) ==
    IF OverrideAt(files, id) = "ok"
    THEN [NoInfoResult EXCEPT !.found = TRUE, !.info = OverrideDoc(fp),
                              !.infoCache = cache, !.from = "override",
                              !.readOverride = TRUE]
    ELSE [NoInfoResult EXCEPT !.infoCache = cache, !.readOverride = TRUE]

\* loadInfoFromImageResource: open the image, cache its ImageInfo
loadInfoFromImageResource(h, cache, id, fp) ==
    LET res == NewResource(id, fp)
        d == res.Decoder
        imageInfo == [Width |-> d.Width, Height |-> d.Height,
                      TileWidth |-> d.TileWidth, TileHeight |-> d.TileHeight,
                      Levels |-> d.Levels]
    IN  IF res.err # "none"
        THEN [NoInfoResult EXCEPT !.code = newImageResError(res.err),
                                  !.err = res.err,
                                  !.infoCache = cache, !.opened = TRUE]
        ELSE [NoInfoResult EXCEPT
                !.found = TRUE,
                !.info = buildInfo(h, id, imageInfo),
                !.infoCache = IF h.infoCacheLen > 0
                              THEN CacheAdd(cache, h.infoCacheLen, id, imageInfo)
                              ELSE cache,
                !.from = "resource",
                !.opened = TRUE]

\* getInfo with the override file read before the cache is asked
getInfoOverrideFirst(h, files, cache, id, fp) ==
    LET overridden == loadInfoOverride(files, cache, id, fp)
        cached == loadInfoFromCache(h, cache, id)
    IN  IF overridden.found THEN overridden
        ELSE IF cached.found THEN [cached EXCEPT !.readOverride = TRUE]
        ELSE [loadInfoFromImageResource(h, cache, id, fp) EXCEPT
                !.readOverride = TRUE]

\* getInfo: the cache first, then the override file, then the image
getInfo(h, files, cache, id, fp) ==
    LET cached == loadInfoFromCache(h, cache, id)
        overridden == loadInfoOverride(files, cache, id, fp)
    IN  IF cached.found THEN cached
        ELSE IF overridden.found THEN overridden
        ELSE [loadInfoFromImageResource(h, cache, id, fp) EXCEPT
                !.readOverride = TRUE]

\* the base path taken as valid as soon as path + "/info.json" parses
isValidBasePathParseOnly(h, plugins, files, cache, path) ==
    [valid |-> NewURL(Append(path, Lit("info.json"))).ok, infoCache |-> cache,
     got |-> [NoInfoResult EXCEPT !.infoCache = cache],
     overrideAt |-> "absent"]

\* isValidBasePath: path + "/info.json" parses and its info can be had
isValidBasePath(h, plugins, files, cache, path) ==
    LET iiifURL == NewURL(Append(path, Lit("info.json")))
        fp == getIIIFPath(plugins, iiifURL.ID).path
        got == getInfo(h, files, cache, iiifURL.ID, fp)
    IN  IF ~iiifURL.ok
        THEN [valid |-> FALSE, infoCache |-> cache,
              got |-> [NoInfoResult EXCEPT !.infoCache = cache],
              overrideAt |-> "absent"]
        ELSE [valid |-> got.found, infoCache |-> got.infoCache,
              got |-> got, overrideAt |-> OverrideAt(files, iiifURL.ID)]

(***************************************************************************)
(* image_handler.go: IIIFRoute, Info and Command                           *)
(***************************************************************************)

\* ih.WebPathPrefix
WebPathPrefix == "iiif"

Req(path, query) ==
    [path |-> path, query |-> query, host |-> "rais.example.org",
     tls |-> FALSE, fwdHost |-> "", fwdProto |-> "", acceptLD |-> FALSE]

\* a request that came through a proxy, or over TLS
ReqVia(path, fwdHost, fwdProto, tls) ==
    [Req(path, "") EXCEPT !.fwdHost = fwdHost, !.fwdProto = fwdProto,
                          !.tls = tls]

\* the commands whose decoding or encoding may fail in the model
FailingPaths ==
    {CommandPath("img1", SizeW(500), "default.jpg"),
     CommandPath("tall", SizeFull, "default.jpg"),
     CommandPath("img1", SizeW(500), "default.png")}

\* the requests made of the handler: every path, a base URI with a query,
\* and an info request with each combination of forwarding headers and TLS
Requests ==
    {Req(path, "") : path \in RequestPaths}
    \cup {Req(<<Lit("img1")>>, "page=2")}
    \cup {ReqVia(<<Lit("img1"), Lit("info.json")>>, fh, fp, tls) :
            fh \in {"", "proxy.example.com"}, fp \in {"", "https"},
            tls \in BOOLEAN}

\* req.URL.String(): the prefixed path, then "?" and the query if there is one
URLString(req) ==
    <<Lit(WebPathPrefix)>> \o req.path \o
        (IF req.query = "" THEN <<>> ELSE <<[Lit(req.query) EXCEPT !.t = "?"]>>)

\* the forwarded values taken as soon as one of the two headers is given
getRequestURLEitherHeader(req) ==
    IF req.fwdHost # "" \/ req.fwdProto # ""
    THEN [Host |-> req.fwdHost, Scheme |-> req.fwdProto]
    ELSE [Host |-> req.host, Scheme |-> IF req.tls THEN "https" ELSE "http"]

\* getRequestURL: the forwarded host and scheme if both are given, else the
\* request's host, with https for a TLS request
getRequestURL(req) ==
    IF req.fwdHost # "" /\ req.fwdProto # ""
    THEN [Host |-> req.fwdHost, Scheme |-> req.fwdProto]
    ELSE [Host |-> req.host, Scheme |-> IF req.tls THEN "https" ELSE "http"]

\* IIIFRoute: the scheme and host of u, from ih.BaseURL if it is set, else
\* from getRequestURL
RouteURL(h, req) ==
    IF h.BaseURL.set
    THEN [Host |-> h.BaseURL.Host, Scheme |-> h.BaseURL.Scheme]
    ELSE getRequestURL(req)

\* IIIFRoute: info.ID = infourl.String() + "/" + iiifURL.ID.Escaped()
InfoID(h, req, id) ==
    <<RouteURL(h, req).Scheme, RouteURL(h, req).Host, WebPathPrefix, id>>

NoResp == [req |-> Req(<<>>, ""), status |-> 0, body |-> <<>>,
           location |-> <<>>, contentType |-> "", cors |-> FALSE,
           lastModified |-> FALSE,
           info |-> NoInfo, infoFrom |-> "none", overrideAt |-> "absent",
           readOverride |-> FALSE, infoOpened |-> FALSE, err |-> "none",
           hit |-> FALSE, opened |-> FALSE,
           max |-> Unbounded, ow |-> 0, oh |-> 0,
           applied |-> FALSE, decoded |-> FALSE, encoded |-> FALSE,
           added |-> <<>>]

\* the key with the format left out of the test
cacheKeyAnyFormat(h, u) ==
    IF h.tileCacheLen > 0 /\ u.Size.w > 0 /\ u.Size.w <= 1024
       /\ u.Size.h <= 1024
    THEN u.Path
    ELSE <<>>

\* the key without the path's last segment, whatever the format is
cacheKeyWithoutFormat(h, u) ==
    IF h.tileCacheLen > 0 /\ u.Size.w > 0 /\ u.Size.w <= 1024
       /\ u.Size.h <= 1024
    THEN SubSeq(u.Path, 1, Len(u.Path) - 1)
    ELSE <<>>

\* cacheKey: the URL's path if the URL is cacheable, else the empty key
cacheKey(h, u) ==
    IF h.tileCacheLen > 0 /\ u.Format = "jpg" /\ u.Size.w > 0
       /\ u.Size.w <= 1024 /\ u.Size.h <= 1024
    THEN u.Path
    ELSE <<>>

\* the output size of a size segment applied to a region of w x h
ResolveSize(size, w, h) ==
    IF size.s = "w," THEN [w |-> size.w, h |-> (size.w * h) \div w]
    ELSE IF size.s = ",h" THEN [w |-> (size.h * w) \div h, h |-> size.h]
    ELSE IF size.s = "w,h" THEN [w |-> size.w, h |-> size.h]
    ELSE [w |-> w, h |-> h]

\* img.Resource.Apply: resolve the output size, refuse it if it exceeds the
\* constraint, else decode and transform
Apply(res, u, max, decodeOk) ==
    LET out == ResolveSize(u.Size, res.Decoder.Width, res.Decoder.Height)
    IN  [ow |-> out.w, oh |-> out.h,
         err |-> IF SmallerThanAny(max, out.w, out.h)
                 THEN "ErrDimensionsExceedLimits"
                 ELSE IF ~decodeOk THEN "decode failed" ELSE "none"]

\* EncodeImage's output for an image
EncodedBytes(u, ow, oh) == <<"image", u.Format, u.ID, ow, oh>>

\* the info's profile passed on as it is, zeros included
CommandMaxRaw(info) ==
    [Width |-> info.MaxWidth, Height |-> info.MaxHeight, Area |-> info.MaxArea]

\* Command's constraint: the info's profile, each zero replaced by the
\* type's maximum
CommandMax(info) ==
    [Width  |-> IF info.MaxWidth = 0 THEN MaxInt32 ELSE info.MaxWidth,
     Height |-> IF info.MaxHeight = 0 THEN MaxInt32 ELSE info.MaxHeight,
     Area   |-> IF info.MaxArea = Int64(0) THEN MaxInt64 ELSE info.MaxArea]

\* Command without the feature check
CommandUnchecked(h, u, res, info, tiles, decodeOk, encodeOk, r) ==
    LET sent == [r EXCEPT !.lastModified = TRUE]
        max == [Width  |-> IF info.MaxWidth = 0 THEN MaxInt32
                           ELSE info.MaxWidth,
                Height |-> IF info.MaxHeight = 0 THEN MaxInt32
                           ELSE info.MaxHeight,
                Area   |-> IF info.MaxArea = Int64(0) THEN MaxInt64
                           ELSE info.MaxArea]
        img == Apply(res, u, max, decodeOk)
        tried == [sent EXCEPT !.max = max, !.ow = img.ow, !.oh = img.oh,
                              !.applied = TRUE,
                              !.decoded = (img.err \in {"none", "decode failed"})]
        key == cacheKey(h, u)
        bytes == EncodedBytes(u, img.ow, img.oh)
    IN  IF img.err # "none"
        THEN [resp |-> [tried EXCEPT !.status = newImageResError(img.err),
                                     !.err = img.err],
              tileCache |-> tiles]
        ELSE IF ~encodeOk
        THEN [resp |-> [tried EXCEPT !.status = 500], tileCache |-> tiles]
        ELSE [resp |-> [tried EXCEPT !.status = 200, !.encoded = TRUE,
                                     !.contentType = u.Format,
                                     !.body = bytes, !.added = key],
              tileCache |-> IF key # <<>>
                            THEN CacheAdd(tiles, h.tileCacheLen, key, bytes)
                            ELSE tiles]

\* Command with the tile cached before EncodeImage's error is looked at
CommandCachesBeforeEncode(h, u, res, info, tiles, decodeOk, encodeOk, r) ==
    LET sent == [r EXCEPT !.lastModified = TRUE]
        max == CommandMax(info)
        img == Apply(res, u, max, decodeOk)
        tried == [sent EXCEPT !.max = max, !.ow = img.ow, !.oh = img.oh,
                              !.applied = TRUE,
                              !.decoded = (img.err \in {"none", "decode failed"})]
        typed == [tried EXCEPT !.contentType = u.Format]
        key == cacheKey(h, u)
        bytes == EncodedBytes(u, img.ow, img.oh)
        cached == IF key # <<>>
                  THEN CacheAdd(tiles, h.tileCacheLen, key, bytes)
                  ELSE tiles
    IN  IF ~Supported(h.FeatureSet, u)
        THEN [resp |-> [sent EXCEPT !.status = 501], tileCache |-> tiles]
        ELSE IF img.err # "none"
        THEN [resp |-> [tried EXCEPT !.status = newImageResError(img.err),
                                     !.err = img.err],
              tileCache |-> tiles]
        ELSE IF ~encodeOk
        THEN [resp |-> [typed EXCEPT !.status = 500], tileCache |-> cached]
        ELSE [resp |-> [typed EXCEPT !.status = 200, !.encoded = TRUE,
                                     !.body = bytes,
                                     !.added = key],
              tileCache |-> cached]

\* Command: headers, feature check, Apply under the info's constraint,
\* encode, cache, write
Command(h, u, res, info, tiles, decodeOk, encodeOk, r) ==
    LET sent == [r EXCEPT !.lastModified = TRUE]
        max == CommandMax(info)
        img == Apply(res, u, max, decodeOk)
        tried == [sent EXCEPT !.max = max, !.ow = img.ow, !.oh = img.oh,
                              !.applied = TRUE,
                              !.decoded = (img.err \in {"none", "decode failed"})]
        typed == [tried EXCEPT !.contentType = u.Format]
        key == cacheKey(h, u)
        bytes == EncodedBytes(u, img.ow, img.oh)
    IN  IF ~Supported(h.FeatureSet, u)
        THEN [resp |-> [sent EXCEPT !.status = 501], tileCache |-> tiles]
        ELSE IF img.err # "none"
        THEN [resp |-> [tried EXCEPT !.status = newImageResError(img.err),
                                     !.err = img.err],
              tileCache |-> tiles]
        ELSE IF ~encodeOk
        THEN [resp |-> [typed EXCEPT !.status = 500], tileCache |-> tiles]
        ELSE [resp |-> [typed EXCEPT !.status = 200, !.encoded = TRUE,
                                     !.body = bytes,
                                     !.added = key],
              tileCache |-> IF key # <<>>
                            THEN CacheAdd(tiles, h.tileCacheLen, key, bytes)
                            ELSE tiles]

\* Info: the info document as JSON
Info(req, info, r) ==
    [r EXCEPT !.status = 200, !.body = <<"info", info>>, !.cors = TRUE,
              !.contentType = IF req.acceptLD THEN "application/ld+json"
                              ELSE "application/json"]

\* IIIFRoute for one request: the response and the caches after it
Route(h, plugins, files, infos, tiles, req, decodeOk, encodeOk) ==
    LET r0 == [NoResp EXCEPT !.req = req]
        iiifURL == NewURL(req.path)
        base == isValidBasePath(h, plugins, files, infos, req.path)
        fp == getIIIFPath(plugins, iiifURL.ID).path
        got == getInfo(h, files, infos, iiifURL.ID, fp)
        info == [got.info EXCEPT !.ID = InfoID(h, req, iiifURL.ID)]
        r1 == [r0 EXCEPT !.info = info, !.infoFrom = got.from,
                         !.opened = got.opened,
                         !.infoOpened = got.opened,
                         !.readOverride = got.readOverride,
                         !.overrideAt = OverrideAt(files, iiifURL.ID)]
        rb == [r0 EXCEPT !.infoFrom = base.got.from,
                         !.opened = base.got.opened,
                         !.infoOpened = base.got.opened,
                         !.readOverride = base.got.readOverride,
                         !.overrideAt = base.overrideAt]
        key == cacheKey(h, iiifURL)
        res == NewResource(iiifURL.ID, fp)
        cmd == Command(h, iiifURL, res, info, tiles, decodeOk, encodeOk,
                       [r1 EXCEPT !.opened = TRUE])
    IN  IF ~iiifURL.ok
        THEN [resp |-> IF base.valid
                       THEN [rb EXCEPT !.status = 303,
                                       !.location = URLString(req) \o
                                                    <<Lit("info.json")>>]
                       ELSE [rb EXCEPT !.status = 400],
              infoCache |-> base.infoCache, tileCache |-> tiles]
        ELSE IF ~got.found
        THEN [resp |-> [r1 EXCEPT !.info = NoInfo, !.status = got.code,
                                  !.err = got.err],
              infoCache |-> got.infoCache, tileCache |-> tiles]
        ELSE IF iiifURL.Info
        THEN [resp |-> Info(req, info, r1),
              infoCache |-> got.infoCache, tileCache |-> tiles]
        ELSE IF key # <<>> /\ CacheHas(tiles, key)
        THEN [resp |-> [r1 EXCEPT !.status = 200, !.hit = TRUE,
                                  !.contentType = iiifURL.Format,
                                  !.body = CacheValue(tiles, key)],
              infoCache |-> got.infoCache, tileCache |-> CacheGet(tiles, key)]
        ELSE IF res.err # "none"
        THEN [resp |-> [r1 EXCEPT !.status = newImageResError(res.err),
                                  !.err = res.err, !.opened = TRUE],
              infoCache |-> got.infoCache, tileCache |-> tiles]
        ELSE IF ~URLValid(iiifURL)
        THEN [resp |-> [r1 EXCEPT !.status = 400, !.opened = TRUE],
              infoCache |-> got.infoCache, tileCache |-> tiles]
        ELSE [resp |-> cmd.resp, infoCache |-> got.infoCache,
              tileCache |-> cmd.tileCache]

\* one request handled by IIIFRoute; for a command the decoder or the
\* encoder may fail
IIIFRoute ==
    /\ \E req \in Requests :
       \E fails \in (IF req.path \in FailingPaths
                     THEN {"none", "decode", "encode"}
                     ELSE {"none"}) :
         LET out == Route(ih, idToPathPlugins, overrideFile, infoCache,
                          tileCache, req, fails # "decode", fails # "encode")
         IN  /\ resp' = out.resp
             /\ infoCache' = out.infoCache
             /\ tileCache' = out.tileCache
    /\ UNCHANGED <<ih, overrideFile, idToPathPlugins, httpOthers>>

\* the environment: an override file is written, broken or removed
WriteOverride ==
    /\ \E id \in OverrideIds, st \in OverrideStates :
         /\ overrideFile[id] # st
         /\ [overrideFile EXCEPT ![id] = st] \in OverrideConfigs
         /\ overrideFile' = [overrideFile EXCEPT ![id] = st]
    /\ UNCHANGED <<ih, infoCache, tileCache, resp, idToPathPlugins, httpOthers>>

(***************************************************************************)
(* The decoder plugins: dispatch by suffix, and imagick-decoder's          *)
(* DecodeImage                                                             *)
(***************************************************************************)

\* filepath.Ext of a path, which is a sequence of names, dots and
\* separators: the path from the last dot of its last element on, empty if
\* that element has no dot
Ext(path) ==
    LET dots == {i \in 1..Len(path) :
                    /\ path[i] = "."
                    /\ \A j \in i..Len(path) : path[j] # "/"}
    IN  IF dots = {} THEN <<>>
        ELSE SubSeq(path, CHOOSE i \in dots : \A j \in dots : j <= i,
                    Len(path))

\* the paths given to the decode functions
Paths ==
    LET dirs == {<<>>, <<"img", "/">>, <<"v", ".", "1", "/">>}
        stems == {<<"scan">>, <<"scan", ".", "jp2">>, <<"jpeg">>}
        suffixes ==
            {<<>>} \cup {<<".", e>> : e \in {"jp2", "tif", "tiff", "png", "jpg",
                                             "jpeg", "gif", "txt", "JPG"}}
    IN  {d \o n \o e : d \in dirs, n \in stems, e \in suffixes}

\* jp2 plugin: decodeJP2
decodeJP2(path) ==
    IF Ext(path) = <<".", "jp2">> THEN "NewJP2Image" ELSE "ErrNotHandled"

\* imagick-decoder: decodeCommonFile; the fifth case of the switch is "jpeg"
decodeCommonFile(path) ==
    IF Ext(path) \in {<<".", "tif">>, <<".", "tiff">>, <<".", "png">>,
                      <<".", "jpg">>, <<"jpeg">>, <<".", "gif">>}
    THEN "NewImage"
    ELSE "ErrNotHandled"

NoDispatch == [path |-> <<>>, jp2 |-> "", common |-> "", done |-> TRUE]

\* the decode functions of both plugins tried on a path
DecodeFns ==
    /\ ~dispatch.done
    /\ dispatch' = [dispatch EXCEPT !.jp2 = decodeJP2(dispatch.path),
                                    !.common = decodeCommonFile(dispatch.path),
                                    !.done = TRUE]
    /\ UNCHANGED <<raster, jp2Vars, s3Vars, plugVars, httpVars>>

\* image.Rectangle, image.Rect, image.ZR, Dx and Dy
Rect(x0, y0, x1, y1) == [MinX |-> x0, MinY |-> y0, MaxX |-> x1, MaxY |-> y1]
ZR == Rect(0, 0, 0, 0)
Dx(r) == r.MaxX - r.MinX
Dy(r) == r.MaxY - r.MinY

\* int((num / den) * src) in float64.  The product truncates to the whole
\* part of num * src / den whenever that quotient is not whole; when it is
\* whole the rounding of num / den decides, and for the sizes of the model
\* the product is exact.
ScaleInt(num, den, src) == (num * src) \div den

\* the images of the model, the crops and the resizes set on them
ImageSizes == {<<100, 10>>, <<1000, 10>>, <<1000, 100>>, <<100, 100>>}
Crops(w, h) == {ZR, Rect(0, 0, w, h), Rect(10, 0, 60, 10), Rect(0, 0, 49, 10)}
ResizeDims == {0, 1, 50, 200}

\* an Image after NewImage, SetCrop and SetResizeWH
NewImage(w, h, area, width, height) ==
    [w |-> w, h |-> h, setArea |-> area, setWidth |-> width,
     setHeight |-> height,
     decodeArea |-> area, decodeWidth |-> width, decodeHeight |-> height,
     ops |-> <<>>, err |-> "none", outW |-> 0, outH |-> 0, done |-> FALSE]

NoRaster == [NewImage(0, 0, ZR, 0, 0) EXCEPT !.done = TRUE]

\* DecodeImage: default the area and the size, compute a missing dimension,
\* crop if the area is not the full image, resize if the size is not the
\* area's; doCrop and doResize may fail
DecodeImage(i, cropOk, resizeOk) ==
    LET full == Rect(0, 0, i.w, i.h)
        area == IF i.decodeArea = ZR THEN full ELSE i.decodeArea
        bothZero == i.decodeWidth = 0 /\ i.decodeHeight = 0
        w0 == IF bothZero THEN i.w ELSE i.decodeWidth
        h0 == IF bothZero THEN i.h ELSE i.decodeHeight
        width == IF w0 = 0 THEN ScaleInt(h0, Dy(area), Dx(area)) ELSE w0
        height == IF h0 = 0 THEN ScaleInt(w0, Dx(area), Dy(area)) ELSE h0
        crops == area # full
        resizes == width # Dx(area) \/ height # Dy(area)
        set == [i EXCEPT !.decodeArea = area, !.decodeWidth = width,
                         !.decodeHeight = height, !.done = TRUE]
    IN  IF crops /\ ~cropOk
        THEN [set EXCEPT !.ops = <<"doCrop">>, !.err = "doCrop failed"]
        ELSE IF resizes /\ ~resizeOk
        THEN [set EXCEPT !.ops = (IF crops THEN <<"doCrop">> ELSE <<>>)
                                 \o <<"doResize">>,
                         !.err = "doResize failed"]
        ELSE [set EXCEPT !.ops = (IF crops THEN <<"doCrop">> ELSE <<>>)
                                 \o (IF resizes THEN <<"doResize">> ELSE <<>>),
                         !.outW = IF resizes THEN width ELSE Dx(area),
                         !.outH = IF resizes THEN height ELSE Dy(area)]

\* a DecodeImage call on the Image
DecodeImageCall ==
    /\ ~raster.done
    /\ \E cropOk, resizeOk \in BOOLEAN :
         raster' = DecodeImage(raster, cropOk, resizeOk)
    /\ UNCHANGED <<dispatch, jp2Vars, s3Vars, plugVars, httpVars>>

(***************************************************************************)
(* Specifications                                                          *)
(***************************************************************************)

DecIdle ==
    /\ dispatch = NoDispatch
    /\ raster = NoRaster

JP2Idle ==
    /\ nextStreamID = 0
    /\ imageStreams = << >>
    /\ issued = << >>
    /\ jp2 = [p \in Decodes |-> NoDecode]
    /\ readers = [p \in Decodes |-> NoReader]
    /\ callback = NoCallback

S3Idle ==
    /\ assets = << >>
    /\ assetObjs = << >>
    /\ s3 = [p \in Callers |-> NoCall]
    /\ lookups = << >>
    /\ expire = NoExpire

PlugIdle ==
    /\ idToPathPlugins = << >>
    /\ pathCall = NoPathCall

HTTPIdle ==
    /\ ih = [BaseURL |-> NoBaseURL,
             Maximums |-> Unbounded, FeatureSet |-> AllFeatures,
             tileCacheLen |-> 0, infoCacheLen |-> 0]
    /\ overrideFile = [id \in OverrideIds |-> "absent"]
    /\ infoCache = << >>
    /\ tileCache = << >>
    /\ resp = NoResp
    /\ built = NoBuilt

InitJP2 ==
    /\ nextStreamID = 0
    /\ imageStreams = << >>
    /\ issued = << >>
    /\ jp2 \in [Decodes -> {[NoDecode EXCEPT !.fullArea = b] : b \in BOOLEAN}]
    /\ readers = [p \in Decodes |-> NoReader]
    /\ callback = NoCallback
    /\ S3Idle /\ PlugIdle /\ HTTPIdle /\ DecIdle

NextJP2 ==
    \E p \in Decodes :
        \/ LookupAsset(p)
        \/ NewImageStream(p)
        \/ NewStream(p)
        \/ CreateCodec(p)
        \/ SetupDecoder(p)
        \/ ReadHeader(p)
        \/ SetDecodeArea(p)
        \/ Decode(p)
        \/ EndDecompress(p)
        \/ DestroyCodec(p)
        \/ DestroyStream(p)

SpecJP2 == InitJP2 /\ [][NextJP2]_vars

\* the stream registry and the callbacks alone: requests register and free
\* their streams while the codec calls back with any id
InitStreams == JP2Idle /\ S3Idle /\ PlugIdle /\ HTTPIdle /\ DecIdle

NextStreams ==
    \/ \E p \in Decodes : RegisterStream(p) \/ ReleaseStream(p)
    \/ OpjStreamRead
    \/ OpjStreamSkip
    \/ OpjStreamSeek

SpecStreams == InitStreams /\ [][NextStreams]_vars

InitS3 == S3Idle /\ JP2Idle /\ PlugIdle /\ HTTPIdle /\ DecIdle

NextS3 ==
    \E p \in Callers :
        \/ IDToPathLookup(p)
        \/ IDToPathTryFLock(p)
        \/ IDToPathSleep(p)
        \/ IDToPathRead(p)
        \/ IDToPathDownload(p)
        \/ IDToPathFUnlock(p)

\* A goroutine in the wait loop is scheduled and its time.Sleep returns.
\* Nothing is assumed of the holder: a download is a network transfer and
\* may take for ever.
FairS3 ==
    \A p \in Callers :
        WF_vars(IDToPathTryFLock(p) \/ IDToPathSleep(p))

SpecS3 == InitS3 /\ [][NextS3]_vars /\ FairS3

\* the asset registry alone: lookups by requests and ExpireCachedImage calls
InitAssets == S3Idle /\ JP2Idle /\ PlugIdle /\ HTTPIdle /\ DecIdle

NextAssets ==
    \/ LookupAssetCall
    \/ ExpireCachedImageLookup
    \/ ExpireCachedImagePurge

SpecAssets == InitAssets /\ [][NextAssets]_vars

\* the decode functions alone: any path of the model
InitDispatch ==
    /\ dispatch \in {[NoDispatch EXCEPT !.path = p, !.done = FALSE] :
                        p \in Paths}
    /\ raster = NoRaster
    /\ JP2Idle /\ S3Idle /\ PlugIdle /\ HTTPIdle

NextDispatch == DecodeFns

SpecDispatch == InitDispatch /\ [][NextDispatch]_vars

\* imagick-decoder's DecodeImage alone: any image, crop and resize
InitRaster ==
    /\ raster \in {NewImage(s[1], s[2], area, width, height) :
                      s \in ImageSizes,
                      area \in UNION {Crops(t[1], t[2]) : t \in ImageSizes},
                      width \in ResizeDims, height \in ResizeDims}
    /\ raster.setArea.MaxX <= raster.w /\ raster.setArea.MaxY <= raster.h
    /\ dispatch = NoDispatch
    /\ JP2Idle /\ S3Idle /\ PlugIdle /\ HTTPIdle

NextRaster == DecodeImageCall

SpecRaster == InitRaster /\ [][NextRaster]_vars

\* IDToPath calls while images are expired: ExpireCachedImage is called for
\* one id by the expiry API and for each indexed id by purgeCaches.  The
\* runs are those in which a caller that found the lock taken is still in
\* its time.Sleep: the registry does not depend on the deadline.
InitPurge == S3Idle /\ JP2Idle /\ PlugIdle /\ HTTPIdle /\ DecIdle

NextPurge ==
    \/ \E p \in Callers :
          \/ IDToPathLookup(p)
          \/ IDToPathTryFLock(p)
          \/ IDToPathRead(p)
          \/ IDToPathDownload(p)
          \/ IDToPathFUnlock(p)
    \/ ExpireCachedImageLookup
    \/ ExpireCachedImagePurge

SpecPurge == InitPurge /\ [][NextPurge]_vars

PluginLists ==
    UNION {[1..n -> PluginResults] : n \in 0..MaxPlugins}

InitPlugins ==
    /\ idToPathPlugins \in PluginLists
    /\ pathCall = NoPathCall
    /\ JP2Idle /\ S3Idle /\ HTTPIdle /\ DecIdle

NextPlugins == GetIIIFPath

SpecPlugins == InitPlugins /\ [][NextPlugins]_vars

\* the serving layer: a handler as configured at startup, one plugin that
\* skips every id, an override file that may or may not be there, empty caches
Init ==
    /\ ih \in Handlers
    /\ overrideFile \in OverrideConfigs
    /\ infoCache = << >>
    /\ tileCache = << >>
    /\ resp = NoResp
    /\ built = NoBuilt
    /\ idToPathPlugins = <<"Skipped">>
    /\ pathCall = NoPathCall
    /\ JP2Idle /\ S3Idle /\ DecIdle

Next ==
    \/ IIIFRoute
    \/ WriteOverride

Spec == Init /\ [][Next]_vars

\* the serving layer over files that do not change: requests only
NextFixedFiles == IIIFRoute

SpecFixedFiles == Init /\ [][NextFixedFiles]_vars

\* buildInfo alone: a handler as configured at startup, and any ImageInfo
InitBuildInfo ==
    /\ ih \in Handlers
    /\ overrideFile = [id \in OverrideIds |-> "absent"]
    /\ infoCache = << >>
    /\ tileCache = << >>
    /\ resp = NoResp
    /\ built \in {[i |-> i, info |-> NoInfo, done |-> FALSE] : i \in ImageInfos}
    /\ JP2Idle /\ S3Idle /\ PlugIdle /\ DecIdle

NextBuildInfo == BuildInfo

SpecBuildInfo == InitBuildInfo /\ [][NextBuildInfo]_vars

(***************************************************************************)
(* Claims about the JP2 decode pipeline                                    *)
(***************************************************************************)

AllDecodesReturned == \A p \in Decodes : jp2[p].pc = "done"

CodecCalls == {"setup_decoder", "read_header", "set_decode_area", "decode",
               "end_decompress"}

\* C1: once every concurrent decode has returned, whatever step it failed or
\* succeeded at, the stream registry holds no entry.
C1_RegistryEmptyAfterDecodes ==
    AllDecodesReturned => DOMAIN imageStreams = {}

\* C8: on every exit path of rawDecode after the stream and the codec were
\* created, the codec and the stream are each destroyed exactly once, and no
\* codec call is made after one that failed.
C8_HandlesDestroyedOnce ==
    \A p \in Decodes :
        /\ jp2[p].codecDestroys <= 1
        /\ jp2[p].streamDestroys <= 1
        /\ (jp2[p].pc = "done" /\ jp2[p].codec # "none") =>
               /\ jp2[p].codecDestroys = 1 /\ jp2[p].codec = "destroyed"
               /\ jp2[p].streamDestroys = 1 /\ jp2[p].stream = "destroyed"
        /\ jp2[p].err \in CodecCalls =>
               jp2[p].steps[Len(jp2[p].steps)] = jp2[p].err

\* one decode returned after its decode area was rejected, another after a
\* complete decode, both with their handles destroyed
C8_Witness ==
    \E p, q \in Decodes :
        /\ jp2[p].pc = "done" /\ jp2[p].err = "set_decode_area"
        /\ jp2[p].codecDestroys = 1 /\ jp2[p].streamDestroys = 1
        /\ jp2[q].pc = "done" /\ jp2[q].err = "none"
        /\ jp2[q].codecDestroys = 1 /\ jp2[q].streamDestroys = 1

\* C9: every id newImageStream returns is greater than every id issued before
\* it (so no id is issued twice, also not after a freeStream), and every
\* registry entry is stored under its own id.
C9_StreamIdsIncrease ==
    /\ \A i, j \in 1..Len(issued) : i < j => issued[i] < issued[j]
    /\ \A k \in DOMAIN imageStreams : imageStreams[k].id = k

\* a stream was registered after an earlier one had been freed, while a
\* third registration is still in the registry
C9_Witness ==
    /\ Len(issued) >= 2
    /\ issued[1] \notin DOMAIN imageStreams
    /\ issued[Len(issued)] \in DOMAIN imageStreams
    /\ \E p \in Decodes : jp2[p].pc = "done" /\ jp2[p].sid = issued[1]
                          /\ jp2[p].streamDestroys = 1

(***************************************************************************)
(* Claims about the s3-images plugin                                       *)
(***************************************************************************)

\* the caller took the asset's lock and has not released it yet
Holds(p) == s3[p].pc \in {"read", "download", "fUnlock"}

Holders(a) == {p \in Callers : Holds(p) /\ s3[p].a = a}

OtherHolds(p) == Holders(s3[p].a) \ {p} # {}

Waiting(p) == s3[p].pc \in {"tryFLock", "sleep"}

\* C2: of the callers that tried an asset's lock since it was last released
\* exactly one got it: never two holders, and the lock is taken exactly when
\* there is a holder, so a tryFLock fails while it is held and succeeds once
\* the holder has called fUnlock.
C2_OneLockHolder ==
    \A a \in 1..Len(assetObjs) :
        /\ Cardinality(Holders(a)) <= 1
        /\ assetObjs[a].fs = Cardinality(Holders(a))

\* a caller failed a tryFLock while another held the lock, and got the lock
\* on a later try, after the holder's fUnlock
C2_Witness ==
    \E p, q \in Callers :
        /\ p # q /\ s3[p].a = s3[q].a
        /\ s3[p].pc = "done" /\ s3[p].unlocks = 1
        /\ Holds(q) /\ s3[q].retried

\* C7: a caller whose asset stays locked by another caller stops waiting: it
\* tries the lock again after every sleep of 250 ms and returns the timed-out
\* error, with an empty path, once more than 10 s have passed, having called
\* neither read, download nor fUnlock.
C7_BoundedWait ==
    /\ [](\A p \in Callers :
            s3[p].err = "timeout" =>
                /\ s3[p].pc = "done" /\ s3[p].path = <<>>
                /\ s3[p].reads = 0 /\ s3[p].downloads = 0 /\ s3[p].unlocks = 0
                /\ s3[p].waited > TimeoutMs)
    /\ \A p \in Callers :
            (Waiting(p) /\ OtherHolds(p)) ~>
                (s3[p].err = "timeout" \/ ~OtherHolds(p))

\* a caller timed out after 41 sleeps of exactly 250 ms while another caller
\* still holds the lock
C7_Witness ==
    \E p \in Callers :
        /\ s3[p].err = "timeout" /\ OtherHolds(p)
        /\ s3[p].waited = TimeoutMs + SleepMs

(***************************************************************************)
(* Claims about identifier dispatch                                        *)
(***************************************************************************)

OkPlugins == {i \in 1..Len(idToPathPlugins) : idToPathPlugins[i] = "Ok"}

FirstOk == CHOOSE i \in OkPlugins : \A j \in OkPlugins : i <= j

\* the plugins getIIIFPath has to call: all up to the first Ok one
PluginsToCall == IF OkPlugins = {} THEN Len(idToPathPlugins) ELSE FirstOk

\* C6: getIIIFPath calls the plugins in list order up to and including the
\* first one that answers Ok and returns that plugin's path; a plugin that
\* skips or fails never ends the walk, a failing one is logged; no plugin
\* after the first Ok is called; without an Ok the path is TilePath/id.
C6_FirstOkPluginWins ==
    pathCall.id # "" =>
        /\ pathCall.called = [i \in 1..PluginsToCall |-> i]
        /\ pathCall.path = IF OkPlugins = {}
                           THEN <<TilePath, pathCall.id>>
                           ELSE PluginPath(FirstOk, pathCall.id)
        /\ \A i \in 1..PluginsToCall :
               (idToPathPlugins[i] = "Error") <=>
                   (\E k \in 1..Len(pathCall.warned) : pathCall.warned[k] = i)
        /\ \A k \in 1..Len(pathCall.warned) :
               /\ pathCall.warned[k] \in 1..PluginsToCall
               /\ \A l \in 1..Len(pathCall.warned) :
                      k < l => pathCall.warned[k] < pathCall.warned[l]

\* a failing and a skipping plugin were passed over and the third one's path
\* was returned
C6_Witness ==
    /\ idToPathPlugins = <<"Error", "Skipped", "Ok">>
    /\ pathCall.id = "img1"
    /\ pathCall.path = PluginPath(3, "img1")
    /\ pathCall.warned = <<1>>

(***************************************************************************)
(* Claims about the serving layer                                          *)
(***************************************************************************)

\* the URL of the last request handled
LastURL == NewURL(resp.req.path)

Handled == resp.status # 0

\* C3 (as claimed): with the tile cache enabled, a successfully encoded
\* request adds a tile-cache entry if and only if its format is JPEG and
\* both of its output dimensions are at most 1024.
C3_CachedIffJpgOutputSmall ==
    (resp.encoded /\ ih.tileCacheLen > 0) =>
        ((resp.added # <<>>) <=>
            (LastURL.Format = "jpg" /\ resp.ow <= 1024 /\ resp.oh <= 1024))

\* what cacheKey asks of a URL: JPEG, and a size segment that names a width
\* of 1..1024 and a height of at most 1024 (0 when it names none)
RequestedSmallJpg(u) ==
    /\ u.Format = "jpg"
    /\ u.Size.w \in 1..1024
    /\ u.Size.h <= 1024

\* C3 (amended): with the tile cache enabled, a successfully encoded request
\* adds a tile-cache entry, under its path, if and only if its format is
\* JPEG and its size segment names a width of 1..1024 and a height of at
\* most 1024 (none counts as 0), whatever the output dimensions are; nothing
\* else is ever added, so every cached key is such a path.
C3_CachedIffJpgRequestedSmall ==
    /\ (resp.encoded /\ ih.tileCacheLen > 0) =>
           ((resp.added # <<>>) <=> RequestedSmallJpg(LastURL))
    /\ resp.added # <<>> =>
           /\ resp.encoded /\ resp.status = 200 /\ ih.tileCacheLen > 0
           /\ resp.added = resp.req.path
           /\ CacheHas(tileCache, resp.added)
           /\ CacheValue(tileCache, resp.added) = resp.body
    /\ \A i \in 1..Len(tileCache) : RequestedSmallJpg(NewURL(tileCache[i].k))

\* a JPEG of 500 x 2000 was encoded for a "500," request and cached
C3_Witness ==
    /\ resp.encoded /\ resp.added # <<>> /\ CacheHas(tileCache, resp.added)
    /\ resp.ow = 500 /\ resp.oh = 2000

\* C4: a command whose output exceeds the handler's MaxWidth, MaxHeight or
\* MaxArea is answered 501 and nothing is encoded, written or cached,
\* whatever the size of the source image.
C4_OverMaximumsIs501 ==
    (resp.applied /\ SmallerThanAny(ih.Maximums, resp.ow, resp.oh)) =>
        /\ resp.status = 501
        /\ ~resp.encoded /\ resp.body = <<>> /\ resp.added = <<>>

\* C5: a request handled while a parseable {filePath}-info.json is there
\* uses the override file's contents as its info, whatever was requested
\* before and with the info cache enabled.
C5_OverrideHonoured ==
    (resp.infoFrom # "none" /\ resp.overrideAt = "ok") =>
        /\ resp.infoFrom = "override"
        /\ resp.info = [OverrideDoc(DefaultPath(LastURL.ID)) EXCEPT
                          !.ID = resp.info.ID]

\* the info of an id can be had if its image is there or if the request
\* found a parseable override file for it
InfoObtainable(id) ==
    ImageFile(DefaultPath(id)).exists \/ resp.overrideAt = "ok"

\* C10: a request whose path does not parse is answered 303 if the path is
\* an identifier whose info can be had once "/info.json" is appended, and
\* 400 if not; either way nothing is decoded, encoded or cached.
C10_BaseURIRedirectOr400 ==
    (Handled /\ ~LastURL.ok) =>
        /\ resp.status \in {303, 400}
        /\ (resp.status = 303) <=>
               /\ NewURL(Append(resp.req.path, Lit("info.json"))).ok
               /\ InfoObtainable(IdOf(resp.req.path))
        /\ ~resp.applied /\ ~resp.decoded /\ ~resp.encoded
        /\ resp.added = <<>> /\ resp.body = <<>>

\* the base URI of an image was answered 303, its info read from the image
\* on the way
C10_Witness ==
    /\ resp.req.path = <<Lit("tall")>> /\ resp.status = 303
    /\ CacheHas(infoCache, <<"tall">>)

\* a command request: the path parsed and is not an info request
IsCommand == LastURL.ok /\ ~LastURL.Info

\* C11: a base-URI request answered 303 is sent to its own path followed by
\* "/info.json", whatever the request URL carries besides the path (a query
\* string, a fragment).
C11_RedirectToPathInfoJSON ==
    resp.status = 303 =>
        resp.location = <<Lit(WebPathPrefix)>> \o resp.req.path \o
                        <<Lit("info.json")>>

\* C12: every 200 response to a command request carries a Last-Modified
\* header, the first time the command is requested and when it is repeated
\* (tile cache enabled).
C12_LastModifiedOnCommand200 ==
    (IsCommand /\ resp.status = 200) => resp.lastModified

\* the identifier a request is for, whether or not its path parsed
RequestID == IF LastURL.ok THEN LastURL.ID ELSE IdOf(resp.req.path)

\* the source file of an identifier is not there
SourceMissing(id) == NewResource(id, DefaultPath(id)).err = "ErrDoesNotExist"

\* the status sent for a resource error is the one newImageResError gives
ErrorStatusMapped ==
    /\ resp.err = "ErrDimensionsExceedLimits" => resp.status = 501
    /\ resp.err = "ErrDoesNotExist" => resp.status = 404
    /\ resp.err \in {"ErrInvalidFiletype", "ErrNotHandled", "decode failed"}
           => resp.status = 500

\* C13: a resource error is answered with exactly one status, 501 for
\* ErrDimensionsExceedLimits, 404 for ErrDoesNotExist and 500 for every
\* other error, and a request for a missing source is never answered 200
\* or 500.
C13_ErrorStatusMapping ==
    /\ ErrorStatusMapped
    /\ (Handled /\ SourceMissing(RequestID)) => resp.status \notin {200, 500}

\* the last request was a well-formed command for an image that is there,
\* asking for a feature the handler has switched off
UnsupportedCommand ==
    /\ Handled /\ IsCommand /\ URLValid(LastURL)
    /\ ImageFile(DefaultPath(LastURL.ID)).exists
    /\ ~Supported(ih.FeatureSet, LastURL)

\* C14: a well-formed command for an identifier that resolves, which
\* FeatureSet.Supported rejects, is answered 501, and Apply, EncodeImage and
\* tileCache.Add are not called for it.
C14_UnsupportedIs501 ==
    UnsupportedCommand =>
        /\ resp.status = 501
        /\ ~resp.applied /\ ~resp.decoded /\ ~resp.encoded
        /\ resp.added = <<>> /\ resp.body = <<>>
        /\ ~CacheHas(tileCache, resp.req.path)

\* a ",h" command was refused by a handler without sizeByH
C14_Witness ==
    /\ UnsupportedCommand /\ resp.status = 501
    /\ LastURL.Size.s = ",h" /\ "sizeByH" \notin ih.FeatureSet
    /\ resp.lastModified

\* the constraint Command hands to Apply, given the info of the request
AppliedFromProfile ==
    /\ resp.max.Width = (IF resp.info.MaxWidth = 0 THEN MaxInt32
                         ELSE resp.info.MaxWidth)
    /\ resp.max.Height = (IF resp.info.MaxHeight = 0 THEN MaxInt32
                          ELSE resp.info.MaxHeight)
    /\ resp.max.Area = (IF resp.info.MaxArea = Int64(0) THEN MaxInt64
                        ELSE resp.info.MaxArea)
    /\ resp.max.Width # 0 /\ resp.max.Height # 0 /\ resp.max.Area # Int64(0)

\* C15: the constraint Command passes to Apply is the info profile's
\* (MaxWidth, MaxHeight, MaxArea) with each zero replaced by MaxInt32 (width,
\* height) or MaxInt64 (area), so none of its fields is zero; and no request
\* changes the handler's own Maximums.
C15_ConstraintFromProfile ==
    /\ [](resp.applied => AppliedFromProfile)
    /\ [][ih' = ih]_vars

\* Apply ran under an override's profile: its MaxWidth, and the maximums of
\* the types for the height and area it leaves at zero, while the handler's
\* Maximums are something else
C15_Witness ==
    /\ resp.applied /\ resp.infoFrom = "override"
    /\ resp.info.MaxWidth = 400 /\ resp.info.MaxHeight = 0
    /\ resp.max = [Width |-> 400, Height |-> MaxInt32, Area |-> MaxInt64]
    /\ ih.Maximums.Width = 1000

\* the identifiers an info cache holds
CacheKeys(c) == {c[i].k : i \in 1..Len(c)}

\* the ImageInfo loadInfoFromImageResource reads from an image file
ImageInfoOf(fp) ==
    [Width |-> ImageFile(fp).Width, Height |-> ImageFile(fp).Height,
     TileWidth |-> ImageFile(fp).TileWidth,
     TileHeight |-> ImageFile(fp).TileHeight, Levels |-> ImageFile(fp).Levels]

\* the info of the last request came from the info cache alone
InfoFromCacheOnly ==
    /\ ~resp.readOverride /\ ~resp.infoOpened
    /\ LastURL.ok =>
          resp.info = [buildInfo(ih, LastURL.ID,
                                 ImageInfoOf(DefaultPath(LastURL.ID)))
                          EXCEPT !.ID = resp.info.ID]

\* every entry of the info cache is the ImageInfo of an image that opened
InfoCacheFromResources ==
    \A i \in 1..Len(infoCache) :
        /\ ImageFile(DefaultPath(infoCache[i].k)).exists
        /\ infoCache[i].v = ImageInfoOf(DefaultPath(infoCache[i].k))

\* an identifier enters the info cache only in a request whose info was read
\* from the image, which opened; a request whose info could not be had
\* leaves the cache as it was
InfoCacheFilledByResource ==
    /\ CacheKeys(infoCache') \ CacheKeys(infoCache) # {} =>
          /\ resp'.infoFrom = "resource" /\ resp'.infoOpened
          /\ CacheKeys(infoCache') \ CacheKeys(infoCache) =
                 {IF NewURL(resp'.req.path).ok THEN NewURL(resp'.req.path).ID
                  ELSE IdOf(resp'.req.path)}
    /\ (resp'.infoFrom = "none" /\ resp'.infoOpened) => infoCache' = infoCache

\* C19: when the info cache holds the identifier, getInfo builds the info
\* from the cached ImageInfo and neither reads the override file nor opens
\* the image; the info cache is filled only by loadInfoFromImageResource
\* after the image opened, and a failed open adds nothing to it.
C19_InfoCacheFirst ==
    /\ [](resp.infoFrom = "cache" => InfoFromCacheOnly)
    /\ []InfoCacheFromResources
    /\ [][InfoCacheFilledByResource]_vars

\* an info request answered from the info cache while a parseable override
\* file was on disk, unread
C19_Witness ==
    /\ resp.infoFrom = "cache" /\ LastURL.ok /\ LastURL.Info
    /\ resp.status = 200
    /\ resp.overrideAt = "ok" /\ ~resp.readOverride /\ ~resp.infoOpened

\* the scheme and host of an info @id
IDScheme(id) == id[1]
IDHost(id) == id[2]

\* C20: the scheme and host of the @id of an info document are the
\* configured BaseURL's if one is set, whatever the headers; else
\* X-Forwarded-Proto and X-Forwarded-Host if both are non-empty; else the
\* request's Host with https for a TLS request and http otherwise, also
\* when just one of the two forwarded headers is there.
C20_InfoIDSchemeHost ==
    (resp.status = 200 /\ LastURL.ok /\ LastURL.Info) =>
        LET id == resp.body[2].ID
            req == resp.req
            forwarded == req.fwdHost # "" /\ req.fwdProto # ""
        IN  /\ Len(id) = 4 /\ id[3] = WebPathPrefix /\ id[4] = LastURL.ID
            /\ ih.BaseURL.set =>
                  /\ IDScheme(id) = ih.BaseURL.Scheme
                  /\ IDHost(id) = ih.BaseURL.Host
            /\ (~ih.BaseURL.set /\ forwarded) =>
                  /\ IDScheme(id) = req.fwdProto
                  /\ IDHost(id) = req.fwdHost
            /\ (~ih.BaseURL.set /\ ~forwarded) =>
                  /\ IDScheme(id) = (IF req.tls THEN "https" ELSE "http")
                  /\ IDHost(id) = req.host

\* an info request over TLS with X-Forwarded-Host but no X-Forwarded-Proto,
\* no BaseURL configured: the @id is https on the request's own host
C20_Witness ==
    /\ resp.status = 200 /\ LastURL.ok /\ LastURL.Info
    /\ ~ih.BaseURL.set
    /\ resp.req.fwdHost # "" /\ resp.req.fwdProto = "" /\ resp.req.tls
    /\ IDScheme(resp.body[2].ID) = "https"
    /\ IDHost(resp.body[2].ID) = resp.req.host

(***************************************************************************)
(* Claims about buildInfo                                                  *)
(***************************************************************************)

\* the smaller of an image's two dimensions
MinDim(i) == IF i.Width < i.Height THEN i.Width ELSE i.Height

\* the powers of two 2^k, k < Levels, such that the smaller dimension
\* divided by 2^j is at least 16 for every j <= k, in increasing order
ExpectedScaleFactors(i) ==
    LET good == {k \in 0..(i.Levels - 1) :
                    \A j \in 0..k : MinDim(i) \div (2 ^ j) >= 16}
    IN  [n \in 1..Cardinality(good) |-> 2 ^ (n - 1)]

\* C16: for an ImageInfo with TileWidth > 0 the scaleFactors of buildInfo
\* are exactly 1, 2, 4, ...: the powers of two 2^k with k < Levels for which
\* min(W,H) div 2^k >= 16 holds for k and every smaller k; they are strictly
\* increasing, at most Levels many, and each satisfies min(W,H) div sf >= 16.
C16_ScaleFactors ==
    (built.done /\ built.i.TileWidth > 0) =>
        LET sf == built.info.ScaleFactors
        IN  /\ sf = ExpectedScaleFactors(built.i)
            /\ Len(sf) <= built.i.Levels
            /\ \A n \in 1..Len(sf) : MinDim(built.i) \div sf[n] >= 16
            /\ \A n \in 1..(Len(sf) - 1) : sf[n] < sf[n + 1]

\* the info of a 6000 x 4000 image of 5 levels has the factors 1 .. 16
C16_Witness ==
    /\ built.done
    /\ built.i.Width = 6000 /\ built.i.Height = 4000 /\ built.i.Levels = 5
    /\ built.i.TileWidth > 0
    /\ built.info.ScaleFactors = <<1, 2, 4, 8, 16>>

(***************************************************************************)
(* Claims about the asset registry and non-S3 identifiers                  *)
(***************************************************************************)

\* the lookupAsset calls of the history
IsLookup(i) == lookups[i].op = "lookup"

\* the history entries for the id of entry i that come before it
Earlier(i) == {j \in 1..(i - 1) : lookups[j].id = lookups[i].id}

\* the ids looked up so far
LookedUp == {lookups[i].id : i \in {j \in 1..Len(lookups) : IsLookup(j)}}

\* C17 (as claimed): the first lookupAsset(id) returns ok = false and
\* registers a new asset, every later lookupAsset(id) returns ok = true and
\* the same asset, and assets holds exactly one entry per id looked up.
C17_FirstLookupRegisters ==
    /\ \A i \in 1..Len(lookups) :
          IsLookup(i) =>
              /\ lookups[i].ok <=> (\E j \in Earlier(i) : IsLookup(j))
              /\ \A j \in Earlier(i) : IsLookup(j) => lookups[j].a = lookups[i].a
    /\ DOMAIN assets = LookedUp

\* the last history entry for the id of entry i that comes before it
Previous(i) == CHOOSE j \in Earlier(i) : \A k \in Earlier(i) : k <= j

\* the last history entry for an id
LastFor(id) ==
    CHOOSE j \in 1..Len(lookups) :
        /\ lookups[j].id = id
        /\ \A k \in 1..Len(lookups) : lookups[k].id = id => k <= j

\* C17 (amended): lookupAsset(id) returns ok = false and registers a new
\* asset exactly when assets holds no entry for id, that is on the first
\* lookup of id and on the first lookup after ExpireCachedImage removed the
\* entry of id; any other lookup returns ok = true and the asset the lookup
\* before it returned.  assets holds one entry, the asset last returned,
\* for each id looked up whose entry was not removed since, and no other.
C17_LookupRegistersWhenAbsent ==
    /\ \A i \in 1..Len(lookups) :
          IsLookup(i) =>
              /\ lookups[i].ok <=>
                     (Earlier(i) # {} /\ IsLookup(Previous(i)))
              /\ lookups[i].ok => lookups[i].a = lookups[Previous(i)].a
              /\ ~lookups[i].ok =>
                     \A j \in 1..(i - 1) : lookups[j].a # lookups[i].a
              /\ assetObjs[lookups[i].a].id = lookups[i].id
    /\ DOMAIN assets = {id \in LookedUp : IsLookup(LastFor(id))}
    /\ \A id \in DOMAIN assets : assets[id] = lookups[LastFor(id)].a

\* an id was looked up and registered, its entry removed by
\* ExpireCachedImage, and the next two lookups of it returned a new asset
\* with ok = false and then that same asset with ok = true
C17_Witness ==
    \E i \in 1..Len(lookups) :
        /\ i + 3 <= Len(lookups)
        /\ \A k \in i..(i + 3) : lookups[k].id = lookups[i].id
        /\ IsLookup(i) /\ ~lookups[i].ok
        /\ ~IsLookup(i + 1)
        /\ IsLookup(i + 2) /\ ~lookups[i + 2].ok
        /\ lookups[i + 2].a # lookups[i].a
        /\ IsLookup(i + 3) /\ lookups[i + 3].ok
        /\ lookups[i + 3].a = lookups[i + 2].a

\* what the dispatcher sees of an IDToPath result
PluginResult(err) == IF err = "none" THEN "Ok"
                     ELSE IF err = "ErrSkipped" THEN "Skipped"
                     ELSE "Error"

\* an IDToPath call for an id that is not an s3:// id
NonS3Call(p) == s3[p].id # "" /\ s3[p].id \notin {"s3://bucket/key",
                                                  "s3://bucket/other"}

\* C18: for an id that is not an s3:// id lookupAsset gives an asset with an
\* empty key, which is not valid, and IDToPath returns ("", ErrSkipped)
\* without trying the asset's lock and without read() or download(); the
\* dispatcher then goes on to the next plugin.
C18_NonS3Skipped ==
    \A p \in Callers :
        NonS3Call(p) =>
            /\ assetObjs[s3[p].a].key = ""
            /\ ~valid(assetObjs[s3[p].a])
            /\ s3[p].pc = "done"
            /\ s3[p].path = <<>> /\ s3[p].err = "ErrSkipped"
            /\ s3[p].reads = 0 /\ s3[p].downloads = 0 /\ s3[p].unlocks = 0
            /\ s3[p].waited = 0 /\ ~s3[p].retried
            /\ assetObjs[s3[p].a].fs = 0
            /\ LET walk == getIIIFPath(<<PluginResult(s3[p].err), "Ok">>,
                                       s3[p].id)
               IN  /\ walk.called = <<1, 2>>
                   /\ walk.warned = <<>>
                   /\ walk.path = PluginPath(2, s3[p].id)

\* one caller was skipped for a non-S3 id while another, with an s3:// id,
\* holds its asset's lock
C18_Witness ==
    \E p, q \in Callers :
        /\ NonS3Call(p) /\ s3[p].pc = "done" /\ s3[p].err = "ErrSkipped"
        /\ ~NonS3Call(q) /\ Holds(q)

(***************************************************************************)
(* Claims about rawDecode's codec calls                                    *)
(***************************************************************************)

\* the codec calls of a decode that fails nowhere
ExpectedSteps(fullArea) ==
    <<"setup_decoder", "read_header">>
    \o (IF fullArea THEN <<>> ELSE <<"set_decode_area">>)
    \o <<"decode", "end_decompress">>

IsPrefix(s, t) == Len(s) <= Len(t) /\ s = SubSeq(t, 1, Len(s))

\* C28: rawDecode makes its codec calls in the order setup-decoder,
\* read-header, set-decode-area, decode, end-decompress, stopping at the
\* first that fails; set-decode-area is called, after the header was read
\* and before decode, if and only if the decode area is not the full source
\* rectangle.
C28_CodecStepOrder ==
    \A p \in Decodes :
        LET steps == jp2[p].steps
            expected == ExpectedSteps(jp2[p].fullArea)
        IN  /\ IsPrefix(steps, expected)
            /\ (jp2[p].pc = "done" /\ jp2[p].codec # "none"
                    /\ jp2[p].err = "none") => steps = expected
            /\ (\E k \in 1..Len(steps) : steps[k] = "decode") =>
                   (~jp2[p].fullArea <=>
                        \E k \in 1..Len(steps) : steps[k] = "set_decode_area")
            /\ \A k \in 1..Len(steps) :
                   steps[k] = "set_decode_area" =>
                       /\ ~jp2[p].fullArea
                       /\ k > 1 /\ steps[k - 1] = "read_header"
                       /\ \A j \in 1..k : steps[j] # "decode"

\* one decode of a part of the image made all five calls and another, of
\* the full image, made the four others
C28_Witness ==
    \E p, q \in Decodes :
        /\ jp2[p].pc = "done" /\ jp2[p].err = "none" /\ ~jp2[p].fullArea
        /\ jp2[p].steps = <<"setup_decoder", "read_header", "set_decode_area",
                            "decode", "end_decompress">>
        /\ jp2[q].pc = "done" /\ jp2[q].err = "none" /\ jp2[q].fullArea
        /\ jp2[q].steps = <<"setup_decoder", "read_header", "decode",
                            "end_decompress">>

(***************************************************************************)
(* The stream callbacks                                                    *)
(***************************************************************************)

\* a step in which the codec called back: the registry is as it was
CallbackStep == imageStreams' = imageStreams /\ nextStreamID' = nextStreamID

\* the value a callback gives for failure
CallbackFailed(cb) ==
    /\ cb.fn = "read" => cb.ret = opjMinusOne64
    /\ cb.fn = "skip" => cb.ret = opjMinusOneSizeT
    /\ cb.fn = "seek" => ~cb.ok

\* C25: a read, skip or seek callback called with stream id k reads or seeks
\* only the reader registered under k and leaves every other request's reader
\* as it was; called with an id that is not in the registry (never handed
\* out, or removed by freeStream) it returns the failure value and leaves
\* every reader as it was.
C25_CallbackUsesOwnReader ==
    [][CallbackStep =>
         LET cb == callback'
         IN  /\ cb.found <=> cb.id \in DOMAIN imageStreams
             /\ cb.found =>
                  /\ readers[cb.reader].sid = cb.id
                  /\ \A q \in Decodes \ {cb.reader} : readers'[q] = readers[q]
             /\ ~cb.found => readers' = readers /\ CallbackFailed(cb)]_vars

C25_Witness ==
    /\ callback.found
    /\ callback.fn = "read"
    /\ readers[callback.reader].pos = DataLen
    /\ \E q \in Decodes \ {callback.reader} :
         readers[q].sid # 0 /\ readers[q].pos = 0

AllBitsSet == [wrapped |-> TRUE, n |-> 1]

\* C29: opjStreamRead returns the number of bytes read when the read gives no
\* error, and the all-bits-set value at EOF, on any other read error and for
\* an unknown stream id; opjStreamSkip returns the number of bytes asked for
\* when the relative seek succeeds and the all-bits-set value otherwise;
\* opjStreamSeek returns true when the absolute seek succeeds and false
\* otherwise.
C29_CallbackReturnValues ==
    [][CallbackStep =>
         LET cb == callback'
             p == cb.reader
             success == cb.found /\ cb.err = "none"
         IN  /\ cb.fn = "read" =>
                  /\ cb.ret = IF success
                              THEN SizeT(readers'[p].pos - readers[p].pos)
                              ELSE AllBitsSet
                  /\ (cb.found /\ readers[p].pos >= DataLen) => ~success
             /\ cb.fn = "skip" =>
                  /\ cb.ret = IF success THEN SizeT(cb.arg) ELSE AllBitsSet
                  /\ success => readers'[p].pos = readers[p].pos + cb.arg
                  /\ (cb.found /\ readers[p].pos + cb.arg < 0) => ~success
             /\ cb.fn = "seek" =>
                  /\ cb.ok <=> success
                  /\ success => readers'[p].pos = cb.arg
                  /\ (cb.found /\ cb.arg < 0) => ~success]_vars

C29_Witness ==
    /\ callback.fn = "skip"
    /\ callback.found
    /\ callback.err = "none"
    /\ callback.arg = 1
    /\ callback.ret = SizeT(1)
    /\ readers[callback.reader].pos = DataLen

\* the callers whose download of the asset is in progress
Downloading(a) == {p \in Callers : s3[p].pc = "download" /\ s3[p].a = a}

\* the caller took the lock at some point of its call
Acquired(p) == Holds(p) \/ s3[p].reads > 0

\* C23: under every interleaving of IDToPath calls for one s3:// id, read()
\* and download() are called only by the caller that holds the asset's
\* lock, at most one download of the asset is in progress, and a caller that
\* took the lock has called fUnlock exactly once when it returns, whether
\* the download succeeded or failed; a caller that never took it calls
\* neither read, download nor fUnlock.
C23_LockedDownload ==
    /\ [](\A a \in 1..Len(assetObjs) : Cardinality(Downloading(a)) <= 1)
    /\ [](\A p \in Callers :
            /\ s3[p].reads <= 1 /\ s3[p].downloads <= 1 /\ s3[p].unlocks <= 1
            /\ Holds(p) => s3[p].unlocks = 0
            /\ (s3[p].pc = "done" /\ Acquired(p)) =>
                   /\ s3[p].reads = 1 /\ s3[p].downloads = 1
                   /\ s3[p].unlocks = 1
                   /\ s3[p].err \in {"none", "download failed"}
            /\ ~Acquired(p) =>
                   s3[p].reads = 0 /\ s3[p].downloads = 0 /\ s3[p].unlocks = 0)
    /\ [][\A p \in Callers :
            (s3'[p].reads # s3[p].reads \/ s3'[p].downloads # s3[p].downloads)
                => /\ assetObjs[s3[p].a].fs = 1
                   /\ Holders(s3[p].a) = {p}
                   /\ assetObjs'[s3[p].a].fs = 1]_vars
    /\ [][\A p \in Callers :
            s3'[p].unlocks # s3[p].unlocks
                => /\ Holders(s3[p].a) = {p}
                   /\ s3[p].downloads = 1
                   /\ assetObjs'[s3[p].a].fs = 0]_vars

\* two callers of one id: one waited for the lock while the other's download
\* failed, and both have returned having unlocked once
C23_Witness ==
    \E p, q \in Callers :
        /\ p # q /\ s3[p].a = s3[q].a
        /\ s3[p].pc = "done" /\ s3[p].err = "download failed"
        /\ s3[p].unlocks = 1
        /\ s3[q].pc = "done" /\ s3[q].err = "none" /\ s3[q].retried
        /\ s3[q].unlocks = 1

\* the caller is between its lookupAsset and its return
InFlight(p) == Holds(p) \/ Waiting(p)

\* C24: under every interleaving of IDToPath and ExpireCachedImage calls
\* (those of PurgeCaches included), the callers that hold or wait for the
\* lock of one id all have the same asset object, which is the one the
\* assets map holds for the id: no entry that an IDToPath call in flight got
\* from lookupAsset is removed, so there are never two locks for one id.
C24_OneAssetPerId ==
    \A p \in Callers :
        InFlight(p) =>
            /\ s3[p].id \in DOMAIN assets
            /\ assets[s3[p].id] = s3[p].a
            /\ \A q \in Callers :
                 (InFlight(q) /\ s3[q].id = s3[p].id) => s3[q].a = s3[p].a

(***************************************************************************)
(* Claims about the caches                                                 *)
(***************************************************************************)

TileKeys(c) == {c[i].k : i \in 1..Len(c)}

\* C27: a request answered with an error status (400, 404, 500, 501) leaves
\* the tile cache as it was; a key enters the tile cache only with a 200
\* answer to a request for that path which was valid, supported, within the
\* limits given to Apply and encoded, and every key in the cache is the path
\* of a valid, supported, cacheable command.
C27_ErrorsLeaveTileCache ==
    /\ [](\A k \in TileKeys(tileCache) :
            LET u == NewURL(k)
            IN  /\ u.ok /\ ~u.Info /\ URLValid(u)
                /\ Supported(ih.FeatureSet, u)
                /\ cacheKey(ih, u) = k)
    /\ [][resp'.status >= 400 => tileCache' = tileCache]_vars
    /\ [][\A k \in TileKeys(tileCache') \ TileKeys(tileCache) :
            LET u == NewURL(k)
            IN  /\ resp'.status = 200 /\ ~resp'.hit
                /\ resp'.req.path = k
                /\ URLValid(u) /\ Supported(ih.FeatureSet, u)
                /\ resp'.applied /\ resp'.decoded /\ resp'.encoded
                /\ ~SmallerThanAny(resp'.max, resp'.ow, resp'.oh)
                /\ CacheValue(tileCache', k) = resp'.body]_vars

\* EncodeImage failed for a cacheable tile that is not in the cache: the
\* answer is 500 and the key is still not there
C27_Witness ==
    /\ resp.status = 500 /\ resp.applied /\ resp.decoded /\ ~resp.encoded
    /\ cacheKey(ih, NewURL(resp.req.path)) # <<>>
    /\ ~CacheHas(tileCache, cacheKey(ih, NewURL(resp.req.path)))

\* the handler with both caches switched off
Uncached(h) == [h EXCEPT !.tileCacheLen = 0, !.infoCacheLen = 0]

\* what the handler without caches answers to the last request, its decoder
\* and encoder failing where they failed for the request (a request served
\* from the tile cache ran neither)
UncachedResp ==
    Route(Uncached(ih), idToPathPlugins, overrideFile, <<>>, <<>>, resp.req,
          resp.err # "decode failed",
          ~(resp.status = 500 /\ resp.applied /\ resp.decoded
            /\ resp.err = "none" /\ ~resp.encoded)).resp

\* C26: over files that do not change and with one handler configuration,
\* every request gets from the handler with its tile and info caches the
\* status and the body it gets from the handler without caches: what a
\* cache hit returns is what the uncached pipeline produces.
C26_CachesAreTransparent ==
    resp.status # 0 =>
        /\ resp.status = UncachedResp.status
        /\ resp.body = UncachedResp.body
        /\ resp.contentType = UncachedResp.contentType

\* a tile served from the tile cache, its info from the info cache
C26_Witness ==
    /\ resp.status = 200 /\ resp.hit /\ resp.infoFrom = "cache"
    /\ resp.body = UncachedResp.body
    /\ UncachedResp.encoded

(***************************************************************************)
(* Claims about the decoder plugins                                        *)
(***************************************************************************)

CommonSuffixes == {"tif", "tiff", "png", "jpg", "jpeg", "gif"}

\* C22: decodeJP2 gives a decoder exactly for the paths whose extension is
\* .jp2 and ErrNotHandled for the others; decodeCommonFile gives a decoder
\* for every path whose extension is .tif, .tiff, .png, .jpg, .jpeg or .gif
\* and ErrNotHandled for every other extension; no path is taken by both.
C22_DispatchBySuffix ==
    (dispatch.done /\ dispatch.path # <<>>) =>
        LET ext == Ext(dispatch.path)
        IN  /\ dispatch.jp2 = "NewJP2Image" <=> ext = <<".", "jp2">>
            /\ dispatch.jp2 # "NewJP2Image" => dispatch.jp2 = "ErrNotHandled"
            /\ dispatch.common = "NewImage" <=>
                   (\E e \in CommonSuffixes : ext = <<".", e>>)
            /\ dispatch.common # "NewImage" =>
                   dispatch.common = "ErrNotHandled"
            /\ ~(dispatch.jp2 = "NewJP2Image" /\ dispatch.common = "NewImage")

\* the decode area's width and height
AreaW == IF raster.setArea = ZR THEN raster.w ELSE Dx(raster.setArea)
AreaH == IF raster.setArea = ZR THEN raster.h ELSE Dy(raster.setArea)

Abs(n) == IF n < 0 THEN 0 - n ELSE n

\* C21: when exactly one of the dimensions given to SetResizeWH is 0,
\* DecodeImage computes it from the other and the decode area: the computed
\* dimension is at least 1 and the two are within a pixel of the area's
\* aspect ratio, whatever the area and the positive dimension are.
C21_MissingDimension ==
    (raster.done /\ (raster.setWidth = 0) # (raster.setHeight = 0)) =>
        /\ raster.decodeWidth >= 1
        /\ raster.decodeHeight >= 1
        /\ raster.setWidth # 0 =>
             /\ raster.decodeWidth = raster.setWidth
             /\ Abs(raster.decodeHeight * AreaW - raster.setWidth * AreaH)
                    < AreaW
        /\ raster.setHeight # 0 =>
             /\ raster.decodeHeight = raster.setHeight
             /\ Abs(raster.decodeWidth * AreaH - raster.setHeight * AreaW)
                    < AreaH

CropRequested ==
    raster.setArea # ZR /\ raster.setArea # Rect(0, 0, raster.w, raster.h)

ResizeRequested == raster.setWidth # 0 \/ raster.setHeight # 0

Did(op) == \E k \in 1..Len(raster.ops) : raster.ops[k] = op

\* C30: DecodeImage crops only if a crop was requested and resizes only if
\* a resize was requested, the crop before the resize; with a crop and no
\* resize the image returned has the crop's width and height, and with
\* neither it has the full image's.
C30_CropAndResizeOnRequest ==
    raster.done /\ raster.w > 0 =>
        /\ Did("doCrop") => CropRequested
        /\ Did("doResize") => ResizeRequested
        /\ raster.ops \in {<<>>, <<"doCrop">>, <<"doResize">>,
                           <<"doCrop", "doResize">>}
        /\ (raster.err = "none" /\ CropRequested /\ ~ResizeRequested) =>
               /\ raster.outW = Dx(raster.setArea)
               /\ raster.outH = Dy(raster.setArea)
        /\ (raster.err = "none" /\ ~CropRequested /\ ~ResizeRequested) =>
               raster.outW = raster.w /\ raster.outH = raster.h

====
